---------------------------- MODULE Spec2Model ----------------------------
(***************************************************************************)
(* A model of the SYNOPSIS downlink prioritization core: the ASDP catalog, *)
(* the rule / constraint expression language, the similarity discount and  *)
(* the bin-wise greedy planner (MaxMarginalRelevanceDownlinkPlanner).      *)
(*                                                                         *)
(* Numbers.  A C++ double is modelled as a record [nan, v]: either NaN or  *)
(* an exact count v of thousandths (1.0 is Unit).  Sums and differences    *)
(* are exact, a product is truncated to thousandths, and a quotient is     *)
(* kept as an exact fraction [nan, num, den] that is compared by cross     *)
(* multiplication.  Every comparison with NaN is false, as in IEEE 754.    *)
(***************************************************************************)
EXTENDS Integers, Sequences, FiniteSets, TLC

Unit == 10 * 100

NaN == [nan |-> TRUE, v |-> 0]
F(x) == [nan |-> FALSE, v |-> x]
Whole(n) == F(n * Unit)

Abs(x) == IF x < 0 THEN -x ELSE x
TruncDiv(a, b) == IF (a < 0) = (b < 0) THEN Abs(a) \div Abs(b) ELSE -(Abs(a) \div Abs(b))

FAdd(a, b) == IF a.nan \/ b.nan THEN NaN ELSE F(a.v + b.v)
FSub(a, b) == IF a.nan \/ b.nan THEN NaN ELSE F(a.v - b.v)
FNeg(a) == IF a.nan THEN NaN ELSE F(-a.v)
FMul(a, b) == IF a.nan \/ b.nan THEN NaN ELSE F(TruncDiv(a.v * b.v, Unit))
FEq(a, b) == ~a.nan /\ ~b.nan /\ a.v = b.v
FNe(a, b) == ~FEq(a, b)
FLt(a, b) == ~a.nan /\ ~b.nan /\ a.v < b.v
FLe(a, b) == ~a.nan /\ ~b.nan /\ a.v <= b.v
FGt(a, b) == FLt(b, a)
FGe(a, b) == FLe(b, a)

\* double / int with a positive divisor, kept exact
FDiv(a, n) == [nan |-> a.nan, num |-> a.v, den |-> n]
QGt(p, q) == ~p.nan /\ ~q.nan /\ p.num * q.den > q.num * p.den
QGe(p, q) == ~p.nan /\ ~q.nan /\ p.num * q.den >= q.num * p.den
QEq(p, q) == ~p.nan /\ ~q.nan /\ p.num * q.den = q.num * p.den
QZero == [nan |-> FALSE, num |-> 0, den |-> 1]

(***************************************************************************)
(* DpMetadataValue: a tagged value that always carries all three payloads. *)
(***************************************************************************)
IntValue(i) == [type |-> "INT", int_value |-> i, float_value |-> F(0), string_value |-> ""]
FloatValue(f) == [type |-> "FLOAT", int_value |-> 0, float_value |-> f, string_value |-> ""]
StringValue(s) == [type |-> "STRING", int_value |-> 0, float_value |-> F(0), string_value |-> s]
DefaultValue == [type |-> "INT", int_value |-> 0, float_value |-> F(0), string_value |-> ""]

get_int_value(value) == value.int_value
get_float_value(value) == value.float_value
get_string_value(value) == value.string_value
is_numeric(value) == value.type = "INT" \/ value.type = "FLOAT"
get_numeric(value) == IF value.type = "INT" THEN Whole(value.int_value) ELSE value.float_value

\* std::map::operator[] on an AsdpEntry: a missing key reads as DpMetadataValue()
EntryGet(asdp, key) == IF key \in DOMAIN asdp THEN asdp[key] ELSE DefaultValue
EntrySet(asdp, key, value) == [k \in DOMAIN asdp \cup {key} |-> IF k = key THEN value ELSE asdp[k]]

(***************************************************************************)
(* The expression AST.  A node is a record tagged by its class name.       *)
(***************************************************************************)
LogicalConstant(b) == [node |-> "LogicalConstant", bvalue |-> b]
LogicalNot(e) == [node |-> "LogicalNot", expr |-> e]
BinaryLogicalExpression(op, l, r) == [node |-> "BinaryLogicalExpression", op |-> op, left |-> l, right |-> r]
ComparatorExpression(comp, l, r) == [node |-> "ComparatorExpression", comp |-> comp, left |-> l, right |-> r]
ExistentialExpression(var, e) == [node |-> "ExistentialExpression", var |-> var, expr |-> e]
ConstExpression(f) == [node |-> "ConstExpression", fvalue |-> f]
StringConstant(s) == [node |-> "StringConstant", svalue |-> s]
MinusExpression(e) == [node |-> "MinusExpression", expr |-> e]
BinaryExpression(op, l, r) == [node |-> "BinaryExpression", op |-> op, left |-> l, right |-> r]
Field(var, field) == [node |-> "Field", var_name |-> var, field_name |-> field]

NumericCompare(comp, l, r) ==
    CASE comp = "==" -> FEq(l, r)
      [] comp = "!=" -> FNe(l, r)
      [] comp = ">" -> FGt(l, r)
      [] comp = ">=" -> FGe(l, r)
      [] comp = "<" -> FLt(l, r)
      [] comp = "<=" -> FLe(l, r)
      [] OTHER -> FALSE

StringCompare(comp, l, r) ==
    CASE comp = "==" -> l = r
      [] comp = "!=" -> l # r
      [] OTHER -> FALSE

\* a comparison in which values of different kinds count as unequal
Comparator_get_value_unequal(comp, left_value, right_value) ==
    IF is_numeric(left_value) # is_numeric(right_value) THEN comp = "!="
    ELSE IF is_numeric(left_value)
         THEN NumericCompare(comp, get_numeric(left_value), get_numeric(right_value))
         ELSE StringCompare(comp, get_string_value(left_value), get_string_value(right_value))

Comparator_get_value(comp, left_value, right_value) ==
    IF is_numeric(left_value) # is_numeric(right_value) THEN FALSE
    ELSE IF is_numeric(left_value)
         THEN NumericCompare(comp, get_numeric(left_value), get_numeric(right_value))
         ELSE StringCompare(comp, get_string_value(left_value), get_string_value(right_value))

BinaryExpression_get_value(op, left_value, right_value) ==
    IF is_numeric(left_value) /\ is_numeric(right_value)
    THEN CASE op = "*" -> FloatValue(FMul(get_numeric(left_value), get_numeric(right_value)))
           [] op = "+" -> FloatValue(FAdd(get_numeric(left_value), get_numeric(right_value)))
           [] op = "-" -> FloatValue(FSub(get_numeric(left_value), get_numeric(right_value)))
           [] OTHER -> FloatValue(NaN)
    ELSE FloatValue(NaN)

Field_get_value(var_name, field_name, assignments) ==
    IF var_name \in DOMAIN assignments
    THEN IF field_name \in DOMAIN assignments[var_name]
         THEN assignments[var_name][field_name]
         ELSE FloatValue(NaN)
    ELSE FloatValue(NaN)

\* assignments that hold the new variable alone
Bind_alone(assignments, var, asdp) == (var :> asdp)

Bind(assignments, var, asdp) ==
    [x \in DOMAIN assignments \cup {var} |-> IF x = var THEN asdp ELSE assignments[x]]

RECURSIVE ValueExpression_get_value(_, _, _)
ValueExpression_get_value(e, assignments, asdps) ==
    CASE e.node = "ConstExpression" -> FloatValue(e.fvalue)
      [] e.node = "StringConstant" -> StringValue(e.svalue)
      [] e.node = "MinusExpression" ->
            LET value == ValueExpression_get_value(e.expr, assignments, asdps)
            IN IF is_numeric(value) THEN FloatValue(FNeg(get_numeric(value)))
                                    ELSE FloatValue(NaN)
      [] e.node = "BinaryExpression" ->
            BinaryExpression_get_value(e.op,
                ValueExpression_get_value(e.left, assignments, asdps),
                ValueExpression_get_value(e.right, assignments, asdps))
      [] e.node = "Field" -> Field_get_value(e.var_name, e.field_name, assignments)

RECURSIVE BoolValueExpression_get_value(_, _, _)
BoolValueExpression_get_value(e, assignments, asdps) ==
    CASE e.node = "LogicalConstant" -> e.bvalue
      [] e.node = "LogicalNot" -> ~BoolValueExpression_get_value(e.expr, assignments, asdps)
      [] e.node = "BinaryLogicalExpression" ->
            LET left_value == BoolValueExpression_get_value(e.left, assignments, asdps)
            IN IF e.op = "AND"
               THEN IF left_value THEN BoolValueExpression_get_value(e.right, assignments, asdps)
                                  ELSE FALSE
               ELSE IF e.op = "OR"
               THEN IF left_value THEN TRUE
                                  ELSE BoolValueExpression_get_value(e.right, assignments, asdps)
               ELSE FALSE
      [] e.node = "ComparatorExpression" ->
            Comparator_get_value(e.comp,
                ValueExpression_get_value(e.left, assignments, asdps),
                ValueExpression_get_value(e.right, assignments, asdps))
      [] e.node = "ExistentialExpression" ->
            \E i \in 1..Len(asdps) :
                BoolValueExpression_get_value(e.expr, Bind(assignments, e.var, asdps[i]), asdps)

(***************************************************************************)
(* The same evaluation with a record of the calls made: every get_value    *)
(* call on a boolean node is logged, in call order, with the position of   *)
(* the node below the root and the assignments the call received.          *)
(***************************************************************************)
Visit(path, assignments) == <<[path |-> path, assignments |-> assignments]>>

\* a logical expression that evaluates both operands of AND and OR
NeedsRight_eager(op, left_value) == op \in {"AND", "OR"}

\* the branches of BinaryLogicalExpression::get_value that call
\* _right_expr->get_value: AND with a true left side, OR with a false one
NeedsRight(op, left_value) ==
    (op = "AND" /\ left_value) \/ (op = "OR" /\ ~left_value)

\* the value returned by the branches that do not look at the right operand
ShortValue(op) == op = "OR"

Negated(here, r) == [value |-> ~r.value, evaluated |-> here \o r.evaluated]
LeftOnly(here, op, l) == [value |-> ShortValue(op), evaluated |-> here \o l.evaluated]
LeftRight(here, l, r) == [value |-> r.value, evaluated |-> here \o l.evaluated \o r.evaluated]

RECURSIVE get_value_trace(_, _, _, _)
RECURSIVE BinaryLogical_trace(_, _, _, _, _)
RECURSIVE Existential_trace(_, _, _, _, _, _)
RECURSIVE Existential_step(_, _, _, _, _, _, _)

get_value_trace(e, assignments, asdps, path) ==
    CASE e.node = "LogicalConstant" ->
            [value |-> e.bvalue, evaluated |-> Visit(path, assignments)]
      [] e.node = "LogicalNot" ->
            Negated(Visit(path, assignments),
                    get_value_trace(e.expr, assignments, asdps, Append(path, "expr")))
      [] e.node = "BinaryLogicalExpression" ->
            BinaryLogical_trace(e, assignments, asdps, path,
                get_value_trace(e.left, assignments, asdps, Append(path, "left")))
      [] e.node = "ComparatorExpression" ->
            [value |-> Comparator_get_value(e.comp,
                          ValueExpression_get_value(e.left, assignments, asdps),
                          ValueExpression_get_value(e.right, assignments, asdps)),
             evaluated |-> Visit(path, assignments)]
      [] e.node = "ExistentialExpression" ->
            Existential_trace(e, assignments, asdps, path, 1, Visit(path, assignments))

BinaryLogical_trace(e, assignments, asdps, path, l) ==
    IF NeedsRight(e.op, l.value)
    THEN LeftRight(Visit(path, assignments), l,
                   get_value_trace(e.right, assignments, asdps, Append(path, "right")))
    ELSE LeftOnly(Visit(path, assignments), e.op, l)

\* for (auto asdp : asdps) from the k-th ASDP on; acc is the log so far
Existential_trace(e, assignments, asdps, path, k, acc) ==
    IF k > Len(asdps) THEN [value |-> FALSE, evaluated |-> acc]
    ELSE Existential_step(e, assignments, asdps, path, k, acc,
            get_value_trace(e.expr, Bind(assignments, e.var, asdps[k]), asdps,
                            Append(path, "expr")))

\* if (evaluation) { return true; }
Existential_step(e, assignments, asdps, path, k, acc, r) ==
    IF r.value THEN [value |-> TRUE, evaluated |-> acc \o r.evaluated]
    ELSE Existential_trace(e, assignments, asdps, path, k + 1, acc \o r.evaluated)

(***************************************************************************)
(* Rule, Constraint and RuleSet.                                           *)
(***************************************************************************)
Null == [node |-> "null"]
Rule(variables, application, adjustment, max_applications) ==
    [variables |-> variables, application_expression |-> application,
     adjustment_expression |-> adjustment, max_applications |-> max_applications]
Constraint(variables, application, sum_field, constraint_value) ==
    [variables |-> variables, application_expression |-> application,
     sum_field |-> sum_field, constraint_value |-> constraint_value]

\* the loop exit test that follows an application of a rule
ReachedMax(rule, n_applications) ==
    rule.max_applications >= 0 /\ n_applications >= rule.max_applications

\* one application of a rule under the given assignments: the adjustment is
\* accumulated (and counted) when it is numeric
Accumulate(rule, assignments, asdps, st) ==
    LET adj == ValueExpression_get_value(rule.adjustment_expression, assignments, asdps)
    IN IF is_numeric(adj)
       THEN [n_applications |-> st.n_applications + 1,
             total_adj_value |-> FAdd(st.total_adj_value, get_numeric(adj))]
       ELSE st

RECURSIVE Rule_apply_one(_, _, _, _)
Rule_apply_one(rule, asdps, i, st) ==
    IF i > Len(asdps) THEN st
    ELSE LET assignments == (rule.variables[1] :> asdps[i])
         IN IF BoolValueExpression_get_value(rule.application_expression, assignments, asdps)
            THEN LET st2 == Accumulate(rule, assignments, asdps, st)
                 IN IF ReachedMax(rule, st2.n_applications) THEN st2
                    ELSE Rule_apply_one(rule, asdps, i + 1, st2)
            ELSE Rule_apply_one(rule, asdps, i + 1, st)

RECURSIVE Rule_apply_inner(_, _, _, _, _)
Rule_apply_inner(rule, asdps, i, j, st) ==
    IF j > Len(asdps) THEN st
    ELSE LET assignments == Bind((rule.variables[1] :> asdps[i]), rule.variables[2], asdps[j])
         IN IF BoolValueExpression_get_value(rule.application_expression, assignments, asdps)
            THEN LET st2 == Accumulate(rule, assignments, asdps, st)
                 IN IF ReachedMax(rule, st2.n_applications) THEN st2
                    ELSE Rule_apply_inner(rule, asdps, i, j + 1, st2)
            ELSE Rule_apply_inner(rule, asdps, i, j + 1, st)

RECURSIVE Rule_apply_two(_, _, _, _)
Rule_apply_two(rule, asdps, i, st) ==
    IF i > Len(asdps) THEN st
    ELSE LET st2 == Rule_apply_inner(rule, asdps, i, 1, st)
         IN IF ReachedMax(rule, st2.n_applications) THEN st2
            ELSE Rule_apply_two(rule, asdps, i + 1, st2)

\* Rule::apply with its local counters: n_applications and total_adj_value
Rule_apply_state(rule, asdps) ==
    LET st0 == [n_applications |-> 0, total_adj_value |-> F(0)]
    IN IF Len(rule.variables) = 1 THEN Rule_apply_one(rule, asdps, 1, st0)
       ELSE IF Len(rule.variables) = 2 THEN Rule_apply_two(rule, asdps, 1, st0)
       ELSE st0

Rule_apply(rule, asdps) == Rule_apply_state(rule, asdps).total_adj_value

RECURSIVE Constraint_aggregate(_, _, _, _)
Constraint_aggregate(constraint, asdps, i, aggregate) ==
    IF i > Len(asdps) THEN aggregate
    ELSE LET assignments == (constraint.variables[1] :> asdps[i])
         IN IF BoolValueExpression_get_value(constraint.application_expression, assignments, asdps)
            THEN IF constraint.sum_field.node # "null"
                 THEN LET value == ValueExpression_get_value(constraint.sum_field, assignments, asdps)
                      IN IF is_numeric(value)
                         THEN Constraint_aggregate(constraint, asdps, i + 1,
                                                   FAdd(aggregate, get_numeric(value)))
                         ELSE Constraint_aggregate(constraint, asdps, i + 1, aggregate)
                 ELSE Constraint_aggregate(constraint, asdps, i + 1, FAdd(aggregate, Whole(1)))
            ELSE Constraint_aggregate(constraint, asdps, i + 1, aggregate)

\* aggregate <= _constraint_value, the non-strict reading of the bound
Constraint_satisfied_nonstrict(aggregate, constraint_value) == FLe(aggregate, constraint_value)

\* return aggregate < _constraint_value
Constraint_satisfied(aggregate, constraint_value) == FLt(aggregate, constraint_value)

Constraint_apply(constraint, asdps) ==
    IF Len(constraint.variables) = 1
    THEN Constraint_satisfied(Constraint_aggregate(constraint, asdps, 1, F(0)),
                              constraint.constraint_value)
    ELSE TRUE

RuleSet(rule_map, constraint_map, default_rules, default_constraints) ==
    [rule_map |-> rule_map, constraint_map |-> constraint_map,
     default_rules |-> default_rules, default_constraints |-> default_constraints]
EmptyMap == [b \in {} |-> <<>>]
EmptyRuleSet == RuleSet(EmptyMap, EmptyMap, <<>>, <<>>)

get_rules(ruleset, bin) ==
    IF bin \in DOMAIN ruleset.rule_map THEN ruleset.rule_map[bin] ELSE ruleset.default_rules

\* the reading in which a bin's constraints are added to the defaults
get_constraints_merged(ruleset, bin) ==
    IF bin \in DOMAIN ruleset.constraint_map
    THEN ruleset.constraint_map[bin] \o ruleset.default_constraints
    ELSE ruleset.default_constraints

get_constraints(ruleset, bin) ==
    IF bin \in DOMAIN ruleset.constraint_map THEN ruleset.constraint_map[bin]
    ELSE ruleset.default_constraints

\* the constraint loop: the index of the first violated constraint, 0 when none
RECURSIVE FirstViolated(_, _, _)
FirstViolated(constraints, queue, i) ==
    IF i > Len(constraints) THEN 0
    ELSE IF ~Constraint_apply(constraints[i], queue) THEN i
    ELSE FirstViolated(constraints, queue, i + 1)

RECURSIVE SumRules(_, _, _, _)
SumRules(rules, queue, j, utility) ==
    IF j > Len(rules) THEN utility
    ELSE SumRules(rules, queue, j + 1, FAdd(utility, Rule_apply(rules[j], queue)))

\* RuleSet::apply, with the constraints it evaluated and the rules it applied
RuleSet_apply_rules(constraints, rules, queue, violated) ==
    IF violated # 0
    THEN [first |-> FALSE, second |-> F(0),
          constraints_evaluated |-> violated, rules_applied |-> 0]
    ELSE [first |-> TRUE, second |-> SumRules(rules, queue, 1, F(0)),
          constraints_evaluated |-> Len(constraints), rules_applied |-> Len(rules)]

RuleSet_apply_log(ruleset, bin, queue) ==
    RuleSet_apply_rules(get_constraints(ruleset, bin), get_rules(ruleset, bin), queue,
                        FirstViolated(get_constraints(ruleset, bin), queue, 1))

\* the std::pair<bool, double> of a logged result
AsPair(r) == [first |-> r.first, second |-> r.second]

RuleSet_apply(ruleset, bin, queue) == AsPair(RuleSet_apply_log(ruleset, bin, queue))

(***************************************************************************)
(* Similarity: diversity descriptors, the Gaussian kernel, the memo cache  *)
(* and the discount factor.                                                *)
(***************************************************************************)
SimilarityFunction(diversity_descriptors, dd_factors, similarity_type, similarity_params) ==
    [diversity_descriptors |-> diversity_descriptors, dd_factors |-> dd_factors,
     similarity_type |-> similarity_type, similarity_params |-> similarity_params]

\* C++ indexes from 0 and tests i < _dd_factors.size(); here i runs from 1
_extract_dd(sf, asdp) ==
    [i \in 1..Len(sf.diversity_descriptors) |->
        LET dd_i == get_float_value(EntryGet(asdp, sf.diversity_descriptors[i]))
        IN IF i <= Len(sf.dd_factors) THEN FMul(dd_i, sf.dd_factors[i]) ELSE dd_i]

Min(a, b) == IF a < b THEN a ELSE b

RECURSIVE SqDistFrom(_, _, _, _)
SqDistFrom(dd1, dd2, i, acc) ==
    IF i > Min(Len(dd1), Len(dd2)) THEN acc
    ELSE LET diff == FSub(dd1[i], dd2[i])
         IN SqDistFrom(dd1, dd2, i + 1, FAdd(acc, FMul(diff, diff)))

_sq_euclidean_dist(dd1, dd2) == SqDistFrom(dd1, dd2, 1, F(0))

\* exp(-x) for x >= 0, in thousandths, tabulated at the whole numbers
ExpTable == <<1000, 368, 135, 50, 18, 7, 2, 1>>
ExpNeg(x) ==
    IF x.nan THEN NaN
    ELSE LET k == x.v \div Unit
         IN IF k + 1 <= Len(ExpTable) THEN F(ExpTable[k + 1]) ELSE F(0)

\* a / b for doubles, b # 0
FQuot(a, b) == IF a.nan \/ b.nan THEN NaN ELSE F(TruncDiv(a.v * Unit, b.v))

_gaussian_similarity(sigma, dd1, dd2) ==
    ExpNeg(FQuot(_sq_euclidean_dist(dd1, dd2), FMul(sigma, sigma)))

get_similarity(sf, asdp1, asdp2) ==
    LET dd1 == _extract_dd(sf, asdp1)
        dd2 == _extract_dd(sf, asdp2)
    IN IF sf.similarity_type = "gaussian"
       THEN LET sigma == IF "sigma" \in DOMAIN sf.similarity_params
                         THEN sf.similarity_params["sigma"] ELSE Whole(1)
            IN _gaussian_similarity(sigma, dd1, dd2)
       ELSE F(0)

Similarity(alpha, default_alpha, functions, default_functions) ==
    [alpha |-> alpha, default_alpha |-> default_alpha,
     functions |-> functions, default_functions |-> default_functions]

\* the cache maps a pair of ids <<smaller, larger>> to a similarity
EmptyCache == [k \in {} |-> F(0)]

\* _cache[cache_key] = similarity
Cached(cache, cache_key, similarity) ==
    [similarity |-> similarity, cache |-> (cache_key :> similarity) @@ cache]

\* the reading in which the key is the pair of ids in argument order
_get_cached_similarity_unsorted(cache, sf, asdp1, asdp2) ==
    LET cache_key == <<get_int_value(EntryGet(asdp1, "id")), get_int_value(EntryGet(asdp2, "id"))>>
    IN IF cache_key \notin DOMAIN cache
       THEN Cached(cache, cache_key, get_similarity(sf, asdp1, asdp2))
       ELSE [similarity |-> cache[cache_key], cache |-> cache]

_get_cached_similarity(cache, sf, asdp1, asdp2) ==
    LET aid1 == get_int_value(EntryGet(asdp1, "id"))
        aid2 == get_int_value(EntryGet(asdp2, "id"))
        cache_key == IF aid1 < aid2 THEN <<aid1, aid2>> ELSE <<aid2, aid1>>
    IN IF cache_key \notin DOMAIN cache
       THEN Cached(cache, cache_key, get_similarity(sf, asdp1, asdp2))
       ELSE [similarity |-> cache[cache_key], cache |-> cache]

inst_type(asdp) ==
    <<get_string_value(EntryGet(asdp, "instrument_name")), get_string_value(EntryGet(asdp, "type"))>>

\* the reading in which the similarity to the last matching ASDP is kept
KeepLast(acc, c) == [max_similarity |-> c.similarity, cache |-> c.cache]

\* if (similarity > max_similarity) { max_similarity = similarity; }
KeepMax(acc, c) ==
    [max_similarity |-> IF FGt(c.similarity, acc.max_similarity)
                        THEN c.similarity ELSE acc.max_similarity,
     cache |-> c.cache]

RECURSIVE MaxOverQueue(_, _, _, _, _)
MaxOverQueue(acc, sf, queue, asdp, k) ==
    IF k > Len(queue) THEN acc
    ELSE IF inst_type(asdp) # inst_type(queue[k]) THEN MaxOverQueue(acc, sf, queue, asdp, k + 1)
    ELSE MaxOverQueue(KeepMax(acc, _get_cached_similarity(acc.cache, sf, asdp, queue[k])),
                      sf, queue, asdp, k + 1)

get_max_similarity(similarity, cache, bin, queue, asdp) ==
    IF Len(queue) = 0 THEN [max_similarity |-> F(0), cache |-> cache]
    ELSE LET sf == IF bin \in DOMAIN similarity.functions
                   THEN similarity.functions[bin] ELSE similarity.default_functions
         IN IF inst_type(asdp) \notin DOMAIN sf THEN [max_similarity |-> F(0), cache |-> cache]
            ELSE MaxOverQueue([max_similarity |-> F(0), cache |-> cache],
                              sf[inst_type(asdp)], queue, asdp, 1)

\* (1.0 - alpha) + alpha * (1.0 - max_similarity)
Discount(alpha, m) ==
    [discount_factor |-> FAdd(FSub(Whole(1), alpha),
                              FMul(alpha, FSub(Whole(1), m.max_similarity))),
     max_similarity |-> m.max_similarity,
     cache |-> m.cache]

get_discount_factor(similarity, cache, bin, queue, asdp) ==
    Discount(IF bin \in DOMAIN similarity.alpha THEN similarity.alpha[bin]
             ELSE similarity.default_alpha,
             get_max_similarity(similarity, cache, bin, queue, asdp))

(***************************************************************************)
(* The configurations a call can name.  parse_rule_config and              *)
(* parse_similarity_config are modelled by their results: the RuleSet and  *)
(* the Similarity each configuration file parses to.                       *)
(***************************************************************************)
True == LogicalConstant(TRUE)

\* CONSTRAINT (x): SUM x.size LESS THAN 50
SizeCap == Constraint(<<"x">>, True, Field("x", "size"), Whole(50))

\* CONSTRAINT (x): COUNT LESS THAN 2
CountCap == Constraint(<<"x">>, True, Null, Whole(2))

\* CONSTRAINT (x): APPLIES x.final_science_utility_estimate >= 2.0, COUNT LESS THAN 1
FinalCap == Constraint(<<"x">>,
                ComparatorExpression(">=", Field("x", "final_science_utility_estimate"),
                                     ConstExpression(Whole(2))),
                Null, Whole(1))

\* RULE (x): APPLIES x.type == "cntx" AND NOT EXISTS y: y.type == "zoom"
\*           ADJUST UTILITY -0.5 * x.final_science_utility_estimate
OrphanRule == Rule(<<"x">>,
                BinaryLogicalExpression("AND",
                    ComparatorExpression("==", Field("x", "type"), StringConstant("cntx")),
                    LogicalNot(ExistentialExpression("y",
                        ComparatorExpression("==", Field("y", "type"), StringConstant("zoom"))))),
                BinaryExpression("*", ConstExpression(F(-500)),
                                 Field("x", "final_science_utility_estimate")),
                -1)

\* RULE (x): APPLIES TRUE, ADJUST UTILITY 1.0, MAX APPLICATIONS 1
BonusRule == Rule(<<"x">>, True, ConstExpression(Whole(1)), 1)

RuleConfigs == {"", "size_cap", "orphan", "per_bin", "final_cap"}

parse_rule_config(config_file) ==
    CASE config_file = "" -> EmptyRuleSet
      [] config_file = "size_cap" -> RuleSet(EmptyMap, EmptyMap, <<>>, <<SizeCap>>)
      [] config_file = "orphan" -> RuleSet(EmptyMap, EmptyMap, <<OrphanRule>>, <<>>)
      [] config_file = "per_bin" -> RuleSet((1 :> <<BonusRule>>), (1 :> <<>>), <<>>, <<CountCap>>)
      [] config_file = "final_cap" -> RuleSet(EmptyMap, EmptyMap, <<>>, <<FinalCap>>)

GaussX == SimilarityFunction(<<"x">>, <<Whole(1)>>, "gaussian", ("sigma" :> Whole(1)))

SimilarityConfigs == {"", "gauss"}

parse_similarity_config(config_file) ==
    CASE config_file = "" -> Similarity(EmptyMap, Whole(1), EmptyMap, EmptyMap)
      [] config_file = "gauss" ->
            Similarity((-1 :> F(500)), Whole(1), EmptyMap, (<<"SFI", "cntx">> :> GaussX))

(***************************************************************************)
(* The catalog and the planner's state.                                    *)
(***************************************************************************)
MaxRows == 3

VARIABLES
    db,                 \* the ASDP table: row i has asdp_id i
    pc,                 \* where prioritize is: "idle", "bins", "select", "collect"
    rule_configuration_id, similarity_configuration_id,
    binned_asdps,       \* bins not yet prioritized -> their ASDP lists
    bin, asdps, prioritized, cumulative_size, cumulative_sue, i, maxiter,
    cache,              \* the _cache of _prioritize_bin's copy of the Similarity
    prioritized_list,   \* the caller's vector, empty when a call begins
    status,
    step,               \* what the last iteration of _prioritize_bin evaluated and chose
    call,               \* the last direct call of a rule, constraint or similarity function
    _initialized,       \* SqliteASDPDB::_initialized
    asds_db,            \* ASDS::_db: "nullptr" or "db"
    timer,              \* a Timer and the answer of its last is_expired
    returned            \* what the last call that returned SUCCESS left in a list the caller keeps

vars == <<db, pc, rule_configuration_id, similarity_configuration_id, binned_asdps,
          bin, asdps, prioritized, cumulative_size, cumulative_sue, i, maxiter, cache,
          prioritized_list, status, step, call, _initialized, asds_db, timer, returned>>

\* what the catalog, the planner and the expressions leave alone
lifecycle == <<_initialized, asds_db, timer, returned>>

DownlinkStates == {"UNTRANSMITTED", "TRANSMITTED", "DOWNLINKED"}

DpDbMsg(instrument_name, type, size, sue, priority_bin, downlink_state, metadata) ==
    [instrument_name |-> instrument_name, type |-> type, dp_size |-> size,
     science_utility_estimate |-> sue, priority_bin |-> priority_bin,
     downlink_state |-> downlink_state, metadata |-> metadata]

NoMetadata == [k \in {} |-> DefaultValue]

\* the data products an ASDS can submit
Messages ==
    { DpDbMsg("SFI", "cntx", 10, Whole(1), 1, "UNTRANSMITTED", ("x" :> FloatValue(Whole(0)))),
      DpDbMsg("SFI", "cntx", 20, Whole(3), 1, "UNTRANSMITTED", ("x" :> FloatValue(Whole(1)))),
      DpDbMsg("SFI", "zoom", 40, Whole(5), 1, "UNTRANSMITTED", NoMetadata),
      DpDbMsg("SFI", "cntx", 10, Whole(1), -1, "UNTRANSMITTED", ("x" :> FloatValue(Whole(1)))) }

_populate_asdp(dp_id, msg) ==
    ("id" :> IntValue(dp_id)) @@
    ("instrument_name" :> StringValue(msg.instrument_name)) @@
    ("type" :> StringValue(msg.type)) @@
    ("size" :> IntValue(msg.dp_size)) @@
    ("science_utility_estimate" :> FloatValue(msg.science_utility_estimate)) @@
    ("priority_bin" :> IntValue(msg.priority_bin)) @@
    msg.metadata

NoCall == [op |-> "none"]
\* no Timer has been constructed
NoTimer == [constructed |-> FALSE]
\* no call has returned into a list the caller keeps
NoReturn == [list |-> <<>>, added |-> <<>>, db |-> <<>>, rule_configuration_id |-> "",
             similarity_configuration_id |-> ""]
NoStep == [taken |-> FALSE, bin |-> 0, queue |-> <<>>, cumulative_size |-> 0,
           cumulative_sue |-> F(0), evals |-> <<>>, best_idx |-> -1]

Init ==
    /\ db = <<>>
    /\ pc = "idle"
    /\ rule_configuration_id = ""
    /\ similarity_configuration_id = ""
    /\ binned_asdps = EmptyMap
    /\ bin = 0
    /\ asdps = <<>>
    /\ prioritized = <<>>
    /\ cumulative_size = 0
    /\ cumulative_sue = F(0)
    /\ i = 0
    /\ maxiter = 0
    /\ cache = EmptyCache
    /\ prioritized_list = <<>>
    /\ status = "SUCCESS"
    /\ step = NoStep
    /\ call = NoCall
    /\ _initialized = TRUE
    /\ asds_db = "db"
    /\ timer = NoTimer
    /\ returned = NoReturn

(***************************************************************************)
(* Catalog operations (SqliteASDPDB).                                      *)
(***************************************************************************)
list_data_product_ids == [k \in 1..Len(db) |-> k]

insert_data_product(msg) ==
    /\ pc = "idle"
    /\ Len(db) < MaxRows
    /\ db' = Append(db, msg)
    /\ status' = "SUCCESS"
    /\ UNCHANGED <<pc, rule_configuration_id, similarity_configuration_id, binned_asdps,
                   bin, asdps, prioritized, cumulative_size, cumulative_sue, i, maxiter,
                   cache, prioritized_list, step, call>>
    /\ UNCHANGED lifecycle

update_downlink_state(asdp_id, state) ==
    /\ pc = "idle"
    /\ IF asdp_id \in 1..Len(db)
       THEN /\ db' = [db EXCEPT ![asdp_id].downlink_state = state]
            /\ status' = "SUCCESS"
       ELSE /\ db' = db
            /\ status' = "FAILURE"
    /\ UNCHANGED <<pc, rule_configuration_id, similarity_configuration_id, binned_asdps,
                   bin, asdps, prioritized, cumulative_size, cumulative_sue, i, maxiter,
                   cache, prioritized_list, step, call>>
    /\ UNCHANGED lifecycle

\* the rows a statement with WHERE asdp_id=? touches: sqlite3_changes
RowExists(catalog, asdp_id) == asdp_id \in 1..Len(catalog)

\* an update that touches the row whether or not it has the field
FieldExists_any(catalog, asdp_id, fieldname) == RowExists(catalog, asdp_id)

\* the rows of METADATA with WHERE asdp_id=? AND fieldname=?
FieldExists(catalog, asdp_id, fieldname) ==
    RowExists(catalog, asdp_id) /\ fieldname \in DOMAIN catalog[asdp_id].metadata

\* SqliteASDPDB::get_data_product: the status and, for a row that is found,
\* the message filled from the row and its metadata
get_data_product(catalog, asdp_id) ==
    IF RowExists(catalog, asdp_id)
    THEN [status |-> "SUCCESS", msg |-> [dp_id |-> asdp_id] @@ catalog[asdp_id]]
    ELSE [status |-> "FAILURE"]

update_science_utility(asdp_id, sue) ==
    /\ pc = "idle"
    /\ IF RowExists(db, asdp_id)
       THEN /\ db' = [db EXCEPT ![asdp_id].science_utility_estimate = sue]
            /\ status' = "SUCCESS"
       ELSE /\ db' = db
            /\ status' = "FAILURE"
    /\ UNCHANGED <<pc, rule_configuration_id, similarity_configuration_id, binned_asdps,
                   bin, asdps, prioritized, cumulative_size, cumulative_sue, i, maxiter,
                   cache, prioritized_list, step, call>>
    /\ UNCHANGED lifecycle

update_priority_bin(asdp_id, b) ==
    /\ pc = "idle"
    /\ IF RowExists(db, asdp_id)
       THEN /\ db' = [db EXCEPT ![asdp_id].priority_bin = b]
            /\ status' = "SUCCESS"
       ELSE /\ db' = db
            /\ status' = "FAILURE"
    /\ UNCHANGED <<pc, rule_configuration_id, similarity_configuration_id, binned_asdps,
                   bin, asdps, prioritized, cumulative_size, cumulative_sue, i, maxiter,
                   cache, prioritized_list, step, call>>
    /\ UNCHANGED lifecycle

update_metadata(asdp_id, fieldname, value) ==
    /\ pc = "idle"
    /\ IF FieldExists(db, asdp_id, fieldname)
       THEN /\ db' = [db EXCEPT ![asdp_id].metadata = EntrySet(@, fieldname, value)]
            /\ status' = "SUCCESS"
       ELSE /\ db' = db
            /\ status' = "FAILURE"
    /\ UNCHANGED <<pc, rule_configuration_id, similarity_configuration_id, binned_asdps,
                   bin, asdps, prioritized, cumulative_size, cumulative_sue, i, maxiter,
                   cache, prioritized_list, step, call>>
    /\ UNCHANGED lifecycle

get_data_product_call(asdp_id) ==
    /\ pc = "idle"
    /\ call' = [op |-> "get_data_product", asdp_id |-> asdp_id,
                result |-> get_data_product(db, asdp_id)]
    /\ status' = get_data_product(db, asdp_id).status
    /\ UNCHANGED <<db, pc, rule_configuration_id, similarity_configuration_id, binned_asdps,
                   bin, asdps, prioritized, cumulative_size, cumulative_sue, i, maxiter,
                   cache, prioritized_list, step>>
    /\ UNCHANGED lifecycle

(***************************************************************************)
(* MaxMarginalRelevanceDownlinkPlanner::prioritize.                        *)
(***************************************************************************)
\* the scan loop of prioritize over dp_ids[k..]: rows that are DOWNLINKED are
\* skipped, TRANSMITTED rows go to the transmitted list, the others to their bin
\* a scan that skips no row
skip_nothing(dl_state) == FALSE

\* if (dl_state == DOWNLINKED) { continue; }
is_downlinked(dl_state) == dl_state = "DOWNLINKED"

\* a scan that puts the TRANSMITTED rows into their bins with the others
RECURSIVE LoadAsdps_binning(_, _, _)
LoadAsdps_binning(dp_ids, k, acc) ==
    IF k > Len(dp_ids) THEN acc
    ELSE LET dp_id == dp_ids[k]
             msg == db[dp_id]
             asdp == _populate_asdp(dp_id, msg)
             b == msg.priority_bin
         IN IF is_downlinked(msg.downlink_state) THEN LoadAsdps_binning(dp_ids, k + 1, acc)
            ELSE LoadAsdps_binning(dp_ids, k + 1,
                    [acc EXCEPT !.binned_asdps =
                        IF b \in DOMAIN acc.binned_asdps
                        THEN [acc.binned_asdps EXCEPT ![b] = Append(@, asdp)]
                        ELSE (b :> <<asdp>>) @@ acc.binned_asdps])

RECURSIVE LoadAsdps(_, _, _)
LoadAsdps(dp_ids, k, acc) ==
    IF k > Len(dp_ids) THEN acc
    ELSE LET dp_id == dp_ids[k]
             msg == db[dp_id]
             asdp == _populate_asdp(dp_id, msg)
             b == msg.priority_bin
         IN IF is_downlinked(msg.downlink_state) THEN LoadAsdps(dp_ids, k + 1, acc)
            ELSE IF msg.downlink_state = "TRANSMITTED"
            THEN LoadAsdps(dp_ids, k + 1,
                           [acc EXCEPT !.transmitted = Append(acc.transmitted, asdp)])
            ELSE LoadAsdps(dp_ids, k + 1,
                    [acc EXCEPT !.binned_asdps =
                        IF b \in DOMAIN acc.binned_asdps
                        THEN [acc.binned_asdps EXCEPT ![b] = Append(@, asdp)]
                        ELSE (b :> <<asdp>>) @@ acc.binned_asdps])

\* a timer that expires only once the duration has been exceeded
is_expired_strict(elapsed, duration) == elapsed > duration

\* Timer::is_expired after timer.start(): elapsed >= duration
is_expired(elapsed, duration) == elapsed >= duration

Durations == {0, 100}
Elapsed == {0, 100}

ResetLocals ==
    /\ bin' = 0
    /\ asdps' = <<>>
    /\ prioritized' = <<>>
    /\ cumulative_size' = 0
    /\ cumulative_sue' = F(0)
    /\ i' = 0
    /\ maxiter' = 0
    /\ cache' = EmptyCache
    /\ step' = NoStep

\* Status status = this->_db->get_data_product(dp_id, msg);
\* if (status != SUCCESS) { return status; }
\* The planner reads through the ASDPDB interface; fault is the position in
\* dp_ids of a read that answers FAILURE (0, or a position past the end: none;
\* 2: the read after a first row that was read well).
ScanStatus(dp_ids, fault) ==
    IF fault \in 1..Len(dp_ids) THEN "FAILURE" ELSE "SUCCESS"

Faults == {0, 2}

\* the call up to the deadline check: configurations parsed, catalog scanned;
\* the two configuration ids are arguments of the call, any of the known ones
prioritize_load(max_processing_time_sec, elapsed, fault) ==
    /\ pc = "idle"
    /\ IF ScanStatus(list_data_product_ids, fault) # "SUCCESS"
       THEN /\ status' = ScanStatus(list_data_product_ids, fault)
            /\ UNCHANGED <<pc, rule_configuration_id, similarity_configuration_id,
                           binned_asdps>>
       ELSE IF is_expired(elapsed, max_processing_time_sec)
       THEN /\ status' = "TIMEOUT"
            /\ UNCHANGED <<pc, rule_configuration_id, similarity_configuration_id,
                           binned_asdps>>
       ELSE /\ pc' = "bins"
            /\ \E rule_id \in RuleConfigs, similarity_id \in SimilarityConfigs :
                  /\ rule_configuration_id' = rule_id
                  /\ similarity_configuration_id' = similarity_id
            /\ binned_asdps' = LoadAsdps(list_data_product_ids, 1,
                                   [binned_asdps |-> EmptyMap, transmitted |-> <<>>]).binned_asdps
            /\ status' = ScanStatus(list_data_product_ids, fault)
    /\ UNCHANGED <<db, bin, asdps, prioritized, cumulative_size, cumulative_sue, i, maxiter,
                   cache, prioritized_list, step, call>>
    /\ UNCHANGED lifecycle

\* the greatest key, as a descending iteration would start with
LastBin(m) == CHOOSE b \in DOMAIN m : \A c \in DOMAIN m : b >= c

\* std::map iterates its keys in ascending order
FirstBin(m) == CHOOSE b \in DOMAIN m : \A c \in DOMAIN m : b <= c

\* _prioritize_bin is entered for the next bin
prioritize_bin_enter ==
    /\ pc = "bins"
    /\ DOMAIN binned_asdps # {}
    /\ bin' = FirstBin(binned_asdps)
    /\ asdps' = binned_asdps[FirstBin(binned_asdps)]
    /\ prioritized' = <<>>
    /\ maxiter' = Len(binned_asdps[FirstBin(binned_asdps)])
    /\ cumulative_size' = 0
    /\ cumulative_sue' = F(0)
    /\ i' = 0
    /\ cache' = EmptyCache
    /\ pc' = "select"
    /\ UNCHANGED <<db, rule_configuration_id, similarity_configuration_id, binned_asdps,
                   prioritized_list, status, step, call>>
    /\ UNCHANGED lifecycle

\* the comparison with >=, under which the last of equal candidates wins
is_better_or_equal(best_idx, relative_utility, best_value) ==
    best_idx < 0 \/ QGe(relative_utility, best_value)

\* the comparison without the first-candidate clause: a candidate is taken
\* only for a relative utility above 0.0
is_better_positive(best_idx, relative_utility, best_value) ==
    QGt(relative_utility, best_value)

\* (best_idx < 0) || (relative_utility > best_value)
is_better(best_idx, relative_utility, best_value) ==
    best_idx < 0 \/ QGt(relative_utility, best_value)

\* the inner loop body once the discount d and the result of ruleset.apply are known
Compare(acc, idx, asdp, candidate, d, applied, final_sue, relative_utility, better) ==
    [asdps |-> [acc.asdps EXCEPT ![idx + 1] =
                    EntrySet(asdp, "final_science_utility_estimate", FloatValue(final_sue))],
     cache |-> d.cache,
     best_idx |-> IF better THEN idx ELSE acc.best_idx,
     best_value |-> IF better THEN relative_utility ELSE acc.best_value,
     evals |-> Append(acc.evals,
                 [id |-> get_int_value(EntryGet(asdp, "id")),
                  candidate |-> candidate,
                  satisfied |-> applied.first,
                  adjustment |-> applied.second,
                  max_similarity |-> d.max_similarity,
                  final_sue |-> final_sue,
                  relative_utility |-> relative_utility])]

RelativeUtility(asdp, applied, final_sue) ==
    FDiv(FAdd(FAdd(cumulative_sue, final_sue), applied.second),
         cumulative_size + get_int_value(EntryGet(asdp, "size")))

Evaluate(acc, idx, asdp, candidate, d, applied, final_sue, relative_utility) ==
    Compare(acc, idx, asdp, candidate, d, applied, final_sue, relative_utility,
            applied.first /\ is_better(acc.best_idx, relative_utility, acc.best_value))

Discounted(acc, idx, asdp, candidate, d, applied, final_sue) ==
    Evaluate(acc, idx, asdp, candidate, d, applied, final_sue,
             RelativeUtility(asdp, applied, final_sue))

\* the candidate queue is copied before final_science_utility_estimate is written
Applied(acc, idx, asdp, candidate, d, applied) ==
    Discounted(acc, idx, asdp, candidate, d, applied,
               FMul(d.discount_factor,
                    get_float_value(EntryGet(asdp, "science_utility_estimate"))))

\* the inner loop body with the discount computed against the candidate queue,
\* the candidate itself included
Candidate_self(ruleset, similarity, acc, idx) ==
    Applied(acc, idx, acc.asdps[idx + 1], Append(prioritized, acc.asdps[idx + 1]),
            get_discount_factor(similarity, acc.cache, bin,
                                Append(prioritized, acc.asdps[idx + 1]), acc.asdps[idx + 1]),
            RuleSet_apply(ruleset, bin, Append(prioritized, acc.asdps[idx + 1])))

\* the body of the inner loop for asdps[idx + 1] (idx counts from 0 as in the code)
Candidate(ruleset, similarity, acc, idx) ==
    Applied(acc, idx, acc.asdps[idx + 1], Append(prioritized, acc.asdps[idx + 1]),
            get_discount_factor(similarity, acc.cache, bin, prioritized, acc.asdps[idx + 1]),
            RuleSet_apply(ruleset, bin, Append(prioritized, acc.asdps[idx + 1])))

RECURSIVE InnerLoop(_, _, _, _)
InnerLoop(ruleset, similarity, acc, idx) ==
    IF idx >= Len(acc.asdps) THEN acc
    ELSE InnerLoop(ruleset, similarity, Candidate(ruleset, similarity, acc, idx), idx + 1)

\* the chosen candidate stays among the candidates: the first is erased instead
RemoveAt_first(seq, k) == Tail(seq)

RemoveAt(seq, k) == [j \in 1..(Len(seq) - 1) |-> IF j < k THEN seq[j] ELSE seq[j + 1]]

\* an iteration that keeps the rule adjustment of the chosen candidate in the
\* cumulative utility
PushBest_retaining(r) ==
    /\ cache' = r.cache
    /\ step' = [taken |-> TRUE, bin |-> bin, queue |-> prioritized,
                cumulative_size |-> cumulative_size, cumulative_sue |-> cumulative_sue,
                evals |-> r.evals, best_idx |-> r.best_idx]
    /\ IF r.best_idx < 0
       THEN /\ pc' = "collect"
            /\ asdps' = r.asdps
            /\ UNCHANGED <<prioritized, cumulative_size, cumulative_sue, i>>
       ELSE LET best_asdp == r.asdps[r.best_idx + 1]
            IN /\ prioritized' = Append(prioritized, best_asdp)
               /\ asdps' = RemoveAt(r.asdps, r.best_idx + 1)
               /\ cumulative_size' =
                      cumulative_size + get_int_value(EntryGet(best_asdp, "size"))
               /\ cumulative_sue' =
                      FAdd(FAdd(cumulative_sue,
                                get_float_value(EntryGet(best_asdp, "final_science_utility_estimate"))),
                           r.evals[r.best_idx + 1].adjustment)
               /\ i' = i + 1
               /\ pc' = pc

\* the end of an iteration, r being the state the inner loop left: break when
\* no valid successor was found, else push the best ASDP onto the queue
PushBest(r) ==
    /\ cache' = r.cache
    /\ step' = [taken |-> TRUE, bin |-> bin, queue |-> prioritized,
                cumulative_size |-> cumulative_size, cumulative_sue |-> cumulative_sue,
                evals |-> r.evals, best_idx |-> r.best_idx]
    /\ IF r.best_idx < 0
       THEN /\ pc' = "collect"
            /\ asdps' = r.asdps
            /\ UNCHANGED <<prioritized, cumulative_size, cumulative_sue, i>>
       ELSE LET best_asdp == r.asdps[r.best_idx + 1]
            IN /\ prioritized' = Append(prioritized, best_asdp)
               /\ asdps' = RemoveAt(r.asdps, r.best_idx + 1)
               /\ cumulative_size' =
                      cumulative_size + get_int_value(EntryGet(best_asdp, "size"))
               /\ cumulative_sue' =
                      FAdd(cumulative_sue,
                           get_float_value(EntryGet(best_asdp, "final_science_utility_estimate")))
               /\ i' = i + 1
               /\ pc' = pc

\* one iteration of the outer loop of _prioritize_bin
prioritize_bin_iterate ==
    /\ pc = "select"
    /\ i < maxiter
    /\ PushBest(InnerLoop(parse_rule_config(rule_configuration_id),
                          parse_similarity_config(similarity_configuration_id),
                          [asdps |-> asdps, cache |-> cache, best_idx |-> -1,
                           best_value |-> QZero, evals |-> <<>>],
                          0))
    /\ UNCHANGED <<db, rule_configuration_id, similarity_configuration_id, binned_asdps,
                   bin, maxiter, prioritized_list, status, call>>
    /\ UNCHANGED lifecycle

prioritized_ids(queue) == [k \in 1..Len(queue) |-> get_int_value(EntryGet(queue[k], "id"))]

\* _prioritize_bin returns and the bin's ids take the place of the list's contents
prioritize_bin_return_assigning ==
    /\ pc = "collect" \/ (pc = "select" /\ i >= maxiter)
    /\ prioritized_list' = prioritized_ids(prioritized)
    /\ binned_asdps' = [b \in DOMAIN binned_asdps \ {bin} |-> binned_asdps[b]]
    /\ pc' = "bins"
    /\ UNCHANGED <<db, rule_configuration_id, similarity_configuration_id,
                   bin, asdps, prioritized, cumulative_size, cumulative_sue, i, maxiter,
                   cache, status, step, call>>
    /\ UNCHANGED lifecycle

\* _prioritize_bin returns and prioritize appends the bin's ids
prioritize_bin_return ==
    /\ pc = "collect" \/ (pc = "select" /\ i >= maxiter)
    /\ prioritized_list' = prioritized_list \o prioritized_ids(prioritized)
    /\ binned_asdps' = [b \in DOMAIN binned_asdps \ {bin} |-> binned_asdps[b]]
    /\ pc' = "bins"
    /\ UNCHANGED <<db, rule_configuration_id, similarity_configuration_id,
                   bin, asdps, prioritized, cumulative_size, cumulative_sue, i, maxiter,
                   cache, status, step, call>>
    /\ UNCHANGED lifecycle

\* a second look at the timer when the bins are done
ReturnStatus_rechecked(timer_is_expired) ==
    IF timer_is_expired THEN "TIMEOUT" ELSE "SUCCESS"

\* return SUCCESS; after the bin loop, whatever the timer says by then
ReturnStatus(timer_is_expired) == "SUCCESS"

\* return SUCCESS: the list goes to the caller
prioritize_return(timer_is_expired) ==
    /\ pc = "bins"
    /\ DOMAIN binned_asdps = {}
    /\ status' = ReturnStatus(timer_is_expired)
    /\ pc' = "idle"
    /\ rule_configuration_id' = ""
    /\ similarity_configuration_id' = ""
    /\ ResetLocals
    /\ prioritized_list' = <<>>
    /\ UNCHANGED <<db, binned_asdps, call>>
    /\ UNCHANGED lifecycle

Next ==
    \/ \E msg \in Messages : insert_data_product(msg)
    \/ \E asdp_id \in 1..MaxRows, state \in DownlinkStates : update_downlink_state(asdp_id, state)
    \/ \E duration \in Durations, elapsed \in Elapsed, fault \in Faults :
            prioritize_load(duration, elapsed, fault)
    \/ prioritize_bin_enter
    \/ prioritize_bin_iterate
    \/ prioritize_bin_return
    \/ \E timer_is_expired \in BOOLEAN : prioritize_return(timer_is_expired)

Spec == Init /\ [][Next]_vars

(***************************************************************************)
(* Direct calls of Rule::apply, Constraint::apply, RuleSet::apply and      *)
(* SimilarityFunction::_extract_dd on bounded inputs.                      *)
(***************************************************************************)
MaxLen == 3

TestEntries ==
    { ("id" :> IntValue(1)) @@ ("type" :> StringValue("cntx")) @@ ("size" :> IntValue(10))
        @@ ("x" :> FloatValue(Whole(2))),
      ("id" :> IntValue(2)) @@ ("type" :> StringValue("zoom")) @@ ("size" :> IntValue(20))
        @@ ("x" :> IntValue(3)),
      ("id" :> IntValue(3)) @@ ("type" :> StringValue("cntx")) @@ ("size" :> IntValue(30))
        @@ ("x" :> StringValue("a")) @@ ("n" :> IntValue(4)) }

RECURSIVE ListsUpTo(_)
ListsUpTo(n) ==
    IF n = 0 THEN {<<>>}
    ELSE LET shorter == ListsUpTo(n - 1)
         IN shorter \cup {Append(l, e) : l \in {m \in shorter : Len(m) = n - 1}, e \in TestEntries}

TestLists == ListsUpTo(MaxLen)

IsCntx == ComparatorExpression("==", Field("x", "type"), StringConstant("cntx"))

TestRules ==
    { Rule(variables, application, adjustment, max_applications) :
        variables \in {<<"x">>, <<"x", "y">>, <<"x", "y", "z">>},
        application \in {True, LogicalConstant(FALSE), IsCntx},
        adjustment \in {ConstExpression(Whole(1)), Field("x", "size"), Field("x", "missing"),
                        Field("x", "x"), StringConstant("a")},
        max_applications \in {-1, 0, 1, 2} }

TestConstraints ==
    { Constraint(variables, application, sum_field, constraint_value) :
        variables \in {<<"x">>, <<"x", "y">>},
        application \in {True, LogicalConstant(FALSE), IsCntx},
        sum_field \in {Null, Field("x", "size"), Field("x", "x"), Field("x", "missing")},
        constraint_value \in {F(0), Whole(1), Whole(30), Whole(-1)} }

\* rule sets as parse_rule_config builds them: a bin has an entry in both maps
TestRuleSets ==
    { EmptyRuleSet,
      RuleSet(EmptyMap, EmptyMap, <<BonusRule>>, <<SizeCap, CountCap>>),
      RuleSet((1 :> <<>>), (1 :> <<>>), <<BonusRule>>, <<CountCap>>),
      RuleSet((1 :> <<BonusRule, Rule(<<"x">>, True, Field("x", "size"), -1)>>),
              (1 :> <<CountCap, SizeCap>>), <<>>, <<>>),
      RuleSet((1 :> <<Rule(<<"x">>, True, Field("x", "missing"), -1)>>),
              (1 :> <<SizeCap, CountCap>>),
              <<Rule(<<"x">>, IsCntx, ConstExpression(Whole(2)), -1)>>,
              <<Constraint(<<"x">>, IsCntx, Null, Whole(1)), SizeCap>>) }

TestBins == {-1, 1}

TestSimilarityFunctions ==
    { SimilarityFunction(dd, w, "gaussian", ("sigma" :> Whole(1))) :
        dd \in {<<>>, <<"x">>, <<"x", "n">>, <<"size", "x">>},
        w \in {<<>>, <<Whole(2)>>, <<Whole(2), F(500)>>} }

Rule_apply_call(rule, list) ==
    /\ call.op = "none"
    /\ call' = [op |-> "Rule::apply", rule |-> rule, asdps |-> list,
                result |-> Rule_apply_state(rule, list)]
    /\ UNCHANGED <<db, pc, rule_configuration_id, similarity_configuration_id, binned_asdps,
                   bin, asdps, prioritized, cumulative_size, cumulative_sue, i, maxiter, cache,
                   prioritized_list, status, step>>
    /\ UNCHANGED lifecycle

Constraint_apply_call(constraint, list) ==
    /\ call.op = "none"
    /\ call' = [op |-> "Constraint::apply", constraint |-> constraint, asdps |-> list,
                result |-> Constraint_apply(constraint, list)]
    /\ UNCHANGED <<db, pc, rule_configuration_id, similarity_configuration_id, binned_asdps,
                   bin, asdps, prioritized, cumulative_size, cumulative_sue, i, maxiter, cache,
                   prioritized_list, status, step>>
    /\ UNCHANGED lifecycle

RuleSet_apply_call(ruleset, b, queue) ==
    /\ call.op = "none"
    /\ call' = [op |-> "RuleSet::apply", ruleset |-> ruleset, bin |-> b, queue |-> queue,
                result |-> RuleSet_apply_log(ruleset, b, queue)]
    /\ UNCHANGED <<db, pc, rule_configuration_id, similarity_configuration_id, binned_asdps,
                   bin, asdps, prioritized, cumulative_size, cumulative_sue, i, maxiter, cache,
                   prioritized_list, status, step>>
    /\ UNCHANGED lifecycle

extract_dd_call(sf, asdp) ==
    /\ call.op = "none"
    /\ call' = [op |-> "_extract_dd", sf |-> sf, asdp |-> asdp, result |-> _extract_dd(sf, asdp)]
    /\ UNCHANGED <<db, pc, rule_configuration_id, similarity_configuration_id, binned_asdps,
                   bin, asdps, prioritized, cumulative_size, cumulative_sue, i, maxiter, cache,
                   prioritized_list, status, step>>
    /\ UNCHANGED lifecycle

NextEval ==
    \/ \E rule \in TestRules, l \in TestLists : Rule_apply_call(rule, l)
    \/ \E constraint \in TestConstraints, l \in TestLists : Constraint_apply_call(constraint, l)
    \/ \E ruleset \in TestRuleSets, b \in TestBins, l \in TestLists : RuleSet_apply_call(ruleset, b, l)
    \/ \E sf \in TestSimilarityFunctions, asdp \in TestEntries : extract_dd_call(sf, asdp)

SpecEval == Init /\ [][NextEval]_vars

(***************************************************************************)
(* Direct calls of BoolValueExpression::get_value on bounded expressions.  *)
(***************************************************************************)
TestAssignments ==
    {EmptyMap} \cup {("x" :> entry) : entry \in TestEntries}
      \cup {("x" :> entry) @@ ("y" :> entry) : entry \in TestEntries}

TestValueExprs ==
    { ConstExpression(Whole(2)), ConstExpression(Whole(3)), ConstExpression(NaN),
      StringConstant("a"), StringConstant("cntx"),
      Field("x", "x"), Field("x", "type"), Field("x", "size"), Field("x", "missing") }

Comparators == {"==", "!=", ">", ">=", "<", "<=", "=~"}

TestComparators ==
    { ComparatorExpression(comp, l, r) :
        comp \in Comparators, l \in TestValueExprs, r \in TestValueExprs }

IsZoomY == ComparatorExpression("==", Field("y", "type"), StringConstant("zoom"))
LargerY == ComparatorExpression(">", Field("y", "size"), Field("x", "size"))
SameTypeY == ComparatorExpression("==", Field("y", "type"), Field("x", "type"))
SameX == ComparatorExpression("==", Field("x", "id"), Field("y", "id"))

TestAtoms ==
    { LogicalConstant(TRUE), LogicalConstant(FALSE), IsCntx,
      ExistentialExpression("y", IsZoomY) }

LogicalOps == {"AND", "OR", "XOR"}

TestOperands ==
    TestAtoms \cup {LogicalNot(IsCntx)}
      \cup { BinaryLogicalExpression(op, l, r) :
                op \in LogicalOps, l \in {LogicalConstant(TRUE), IsCntx},
                r \in {LogicalConstant(FALSE), ExistentialExpression("y", IsZoomY)} }

TestLogicals ==
    { BinaryLogicalExpression(op, l, r) :
        op \in LogicalOps, l \in TestOperands, r \in TestOperands }

TestBodies ==
    { LogicalConstant(TRUE), LogicalConstant(FALSE), IsZoomY, LargerY, SameTypeY, SameX,
      LogicalNot(SameTypeY), BinaryLogicalExpression("AND", SameTypeY, LargerY),
      BinaryLogicalExpression("OR", IsCntx, IsZoomY),
      ExistentialExpression("z", ComparatorExpression(">", Field("z", "size"), Field("y", "size"))) }

TestExistentials ==
    { ExistentialExpression(var, body) : var \in {"y", "x"}, body \in TestBodies }

get_value_call(e, assignments, list) ==
    /\ call.op = "none"
    /\ call' = [op |-> "BoolValueExpression::get_value", expr |-> e,
                assignments |-> assignments, asdps |-> list,
                result |-> get_value_trace(e, assignments, list, <<>>)]
    /\ UNCHANGED <<db, pc, rule_configuration_id, similarity_configuration_id, binned_asdps,
                   bin, asdps, prioritized, cumulative_size, cumulative_sue, i, maxiter, cache,
                   prioritized_list, status, step>>
    /\ UNCHANGED lifecycle

\* one call is made from the initial state
NextExpr ==
    \/ /\ call.op = "none"
       /\ \E e \in TestLogicals, assignments \in TestAssignments,
             l \in {m \in TestLists : Len(m) <= 1} : get_value_call(e, assignments, l)
    \/ /\ call.op = "none"
       /\ \E e \in TestComparators, assignments \in TestAssignments :
             get_value_call(e, assignments, <<>>)
    \/ /\ call.op = "none"
       /\ \E e \in TestExistentials, assignments \in TestAssignments, l \in TestLists :
             get_value_call(e, assignments, l)

SpecExpr == Init /\ [][NextExpr]_vars

(***************************************************************************)
(* The catalog under its whole interface: inserts, the four updates and    *)
(* get_data_product, on a catalog of at most MaxDbRows rows.               *)
(***************************************************************************)
MaxDbRows == 2

DbMessages ==
    { DpDbMsg("SFI", "cntx", 10, Whole(1), 1, "UNTRANSMITTED", ("x" :> FloatValue(Whole(0)))),
      DpDbMsg("SFI", "zoom", 40, Whole(5), 1, "UNTRANSMITTED", NoMetadata) }

\* ids given to the calls: some exist, -1, 0 and the first unused id do not
DbIds == -1..(MaxDbRows + 1)

NewSues == {F(500)}
NewBins == {17}
NewStates == {"TRANSMITTED"}
Fieldnames == {"x", "bad_field"}
NewValues == {IntValue(7)}

\* operations follow one another until a get_data_product is recorded
NextDb ==
    \/ /\ call.op = "none"
       /\ Len(db) < MaxDbRows
       /\ \E msg \in DbMessages : insert_data_product(msg)
    \/ /\ call.op = "none"
       /\ \E asdp_id \in DbIds, sue \in NewSues : update_science_utility(asdp_id, sue)
    \/ /\ call.op = "none"
       /\ \E asdp_id \in DbIds, b \in NewBins : update_priority_bin(asdp_id, b)
    \/ /\ call.op = "none"
       /\ \E asdp_id \in DbIds, state \in NewStates : update_downlink_state(asdp_id, state)
    \/ /\ call.op = "none"
       /\ \E asdp_id \in DbIds, fieldname \in Fieldnames, value \in NewValues :
             update_metadata(asdp_id, fieldname, value)
    \/ /\ call.op = "none"
       /\ \E asdp_id \in DbIds : get_data_product_call(asdp_id)

SpecDb == Init /\ [][NextDb]_vars

(***************************************************************************)
(* Application::init and Application::memory_requirement over modules that *)
(* state a memory requirement and answer their own init with a status.     *)
(***************************************************************************)
MEM_ALIGN_SIZE == 8

padding_nbytes(block_size) ==
    (MEM_ALIGN_SIZE - (block_size % MEM_ALIGN_SIZE)) % MEM_ALIGN_SIZE

\* mem = module->memory_requirement(); mem += Application::padding_nbytes(mem);
Padded(requirement) == requirement + padding_nbytes(requirement)

Module(requirement, init_status) ==
    [memory_requirement |-> requirement, init |-> init_status]

\* one stage of Application::init: the module is initialized at the offset,
\* then the offset is advanced and compared with the size of the block
InitModule(module, st, bytes) ==
    IF st.status # "SUCCESS" THEN st
    ELSE IF module.init # "SUCCESS"
    THEN [st EXCEPT !.status = module.init, !.returned = TRUE]
    ELSE IF st.offset + Padded(module.memory_requirement) > bytes
    THEN [status |-> "FAILURE", returned |-> TRUE,
          offset |-> st.offset + Padded(module.memory_requirement),
          initialized |-> st.initialized + 1]
    ELSE [status |-> "SUCCESS", returned |-> FALSE,
          offset |-> st.offset + Padded(module.memory_requirement),
          initialized |-> st.initialized + 1]

RECURSIVE InitModules(_, _, _, _)
InitModules(modules, k, st, bytes) ==
    IF k > Len(modules) THEN st
    ELSE InitModules(modules, k + 1, InitModule(modules[k], st, bytes), bytes)

\* Application::init: the database, the ASDSs in registration order, the
\* planner; initialized counts the modules whose init was called and succeeded
Application_init(bytes, database, asds, planner) ==
    InitModules(<<database>> \o asds \o <<planner>>, 1,
                [status |-> "SUCCESS", returned |-> FALSE, offset |-> 0, initialized |-> 0],
                bytes)

RECURSIVE SumPadded(_, _)
SumPadded(modules, k) ==
    IF k > Len(modules) THEN 0
    ELSE Padded(modules[k].memory_requirement) + SumPadded(modules, k + 1)

\* Application::memory_requirement: the ASDSs, then the database
memory_requirement(database, asds) ==
    SumPadded(asds, 1) + Padded(database.memory_requirement)

MaxAsds == 2

Requirements == {0, 5, 8}
TestModules ==
    { Module(requirement, init_status) :
        requirement \in Requirements, init_status \in {"SUCCESS", "FAILURE"} }

RECURSIVE ModuleListsUpTo(_)
ModuleListsUpTo(n) ==
    IF n = 0 THEN {<<>>}
    ELSE LET shorter == ModuleListsUpTo(n - 1)
         IN shorter \cup {Append(l, m) : l \in {x \in shorter : Len(x) = n - 1}, m \in TestModules}

\* sizes of the block: the multiples of the alignment and the byte below each
BytesGiven == {8 * k : k \in 0..(MaxAsds + 2)} \cup {8 * k - 1 : k \in 1..(MaxAsds + 2)}

Application_init_call(bytes, database, asds, planner) ==
    /\ call.op = "none"
    /\ call' = [op |-> "Application::init", bytes |-> bytes, database |-> database,
                asds |-> asds, planner |-> planner,
                memory_requirement |-> memory_requirement(database, asds),
                result |-> Application_init(bytes, database, asds, planner)]
    /\ UNCHANGED <<db, pc, rule_configuration_id, similarity_configuration_id, binned_asdps,
                   bin, asdps, prioritized, cumulative_size, cumulative_sue, i, maxiter, cache,
                   prioritized_list, status, step>>
    /\ UNCHANGED lifecycle

NextInit ==
    /\ call.op = "none"
    /\ \E bytes \in BytesGiven, database \in TestModules, planner \in TestModules,
          asds \in ModuleListsUpTo(MaxAsds) :
            Application_init_call(bytes, database, asds, planner)

SpecInit == Init /\ [][NextInit]_vars

(***************************************************************************)
(* The application from its construction: an ASDS is registered, the       *)
(* application is initialized and de-initialized, and the ASDS submits     *)
(* data products whose metadata file holds a JSON object.                  *)
(***************************************************************************)
planner_vars == <<pc, rule_configuration_id, similarity_configuration_id, binned_asdps,
                  bin, asdps, prioritized, cumulative_size, cumulative_sue, i, maxiter,
                  cache, prioritized_list, step, timer, returned>>

\* JSON values, tagged by their kind
JNull == [kind |-> "null"]
JInteger(n) == [kind |-> "integer", int |-> n]
JFloat(f) == [kind |-> "float", float |-> f]
JString(str) == [kind |-> "string", string |-> str]
JBoolean(b) == [kind |-> "boolean", bool |-> b]
JObject(members) == [kind |-> "object", members |-> members]

is_number(j) == j.kind \in {"integer", "float"}
is_number_integer(j) == j.kind = "integer"
is_string(j) == j.kind = "string"
is_object(j) == j.kind = "object"

\* j.get<double>()
get_double(j) == IF j.kind = "integer" THEN Whole(j.int) ELSE j.float

\* j[key] on a JSON object: a key the object lacks reads as null
Member(j, key) == IF key \in DOMAIN j.members THEN j.members[key] ELSE JNull

\* the loop over j_meta.items(): integers, other numbers and strings become
\* metadata values, members of any other kind are left out
metadata_from_json(j_meta) ==
    [key \in {k \in DOMAIN j_meta.members :
                is_number(j_meta.members[k]) \/ is_string(j_meta.members[k])} |->
        IF is_number_integer(j_meta.members[key]) THEN IntValue(j_meta.members[key].int)
        ELSE IF is_number(j_meta.members[key]) THEN FloatValue(j_meta.members[key].float)
        ELSE StringValue(j_meta.members[key].string)]

DpMsg(instrument_name, type, dp_size, metadata_usage, json) ==
    [instrument_name |-> instrument_name, type |-> type, dp_size |-> dp_size,
     metadata_usage |-> metadata_usage, json |-> json]

\* ASDS::submit_data_product(DpMsg) up to the construction of db_msg: the
\* status and, when the metadata is accepted or not used, the message
to_db_msg(msg) ==
    IF ~msg.metadata_usage
    THEN [status |-> "SUCCESS",
          db_msg |-> DpDbMsg(msg.instrument_name, msg.type, msg.dp_size, F(0), 0,
                             "UNTRANSMITTED", NoMetadata)]
    ELSE IF ~is_number(Member(msg.json, "science_utility_estimate"))
    THEN [status |-> "FAILURE"]
    ELSE IF ~is_number_integer(Member(msg.json, "priority_bin"))
    THEN [status |-> "FAILURE"]
    ELSE IF ~is_object(Member(msg.json, "metadata"))
    THEN [status |-> "FAILURE"]
    ELSE [status |-> "SUCCESS",
          db_msg |-> DpDbMsg(msg.instrument_name, msg.type, msg.dp_size,
                             get_double(Member(msg.json, "science_utility_estimate")),
                             Member(msg.json, "priority_bin").int,
                             "UNTRANSMITTED",
                             metadata_from_json(Member(msg.json, "metadata")))]

\* a check of the pointer alone
DatabaseAvailable_unchecked(database, initialized) == database # "nullptr"

\* !(this->_db == nullptr || !this->_db->is_initialized())
DatabaseAvailable(database, initialized) == database # "nullptr" /\ initialized

\* the state after the constructors: the database is not initialized and the
\* ASDS has no database
InitApp ==
    /\ db = <<>>
    /\ pc = "idle"
    /\ rule_configuration_id = ""
    /\ similarity_configuration_id = ""
    /\ binned_asdps = EmptyMap
    /\ bin = 0
    /\ asdps = <<>>
    /\ prioritized = <<>>
    /\ cumulative_size = 0
    /\ cumulative_sue = F(0)
    /\ i = 0
    /\ maxiter = 0
    /\ cache = EmptyCache
    /\ prioritized_list = <<>>
    /\ status = "SUCCESS"
    /\ step = NoStep
    /\ call = NoCall
    /\ _initialized = FALSE
    /\ asds_db = "nullptr"
    /\ timer = NoTimer
    /\ returned = NoReturn

\* Application::add_asds: asds->set_database(this->_db)
add_asds ==
    /\ asds_db' = "db"
    /\ status' = "SUCCESS"
    /\ UNCHANGED <<db, call, _initialized>>
    /\ UNCHANGED planner_vars

\* Application::init with a SqliteASDPDB and a MaxMarginalRelevanceDownlinkPlanner,
\* which require no memory, and one ASDS: SqliteASDPDB::init sets _initialized
\* when the database opens, whatever happens to the modules after it
Application_init_step(bytes, database_init, asds_requirement) ==
    /\ status' = Application_init(bytes, Module(0, database_init),
                                  <<Module(asds_requirement, "SUCCESS")>>,
                                  Module(0, "SUCCESS")).status
    /\ _initialized' = IF database_init = "SUCCESS" THEN TRUE ELSE _initialized
    /\ UNCHANGED <<db, call, asds_db>>
    /\ UNCHANGED planner_vars

\* Application::deinit: SqliteASDPDB::deinit clears _initialized
Application_deinit ==
    /\ _initialized' = FALSE
    /\ status' = "SUCCESS"
    /\ UNCHANGED <<db, call, asds_db>>
    /\ UNCHANGED planner_vars

\* ASDS::submit_data_product(DpMsg), and through it submit_data_product(DpDbMsg)
\* and SqliteASDPDB::insert_data_product
submit_data_product(msg) ==
    /\ IF to_db_msg(msg).status # "SUCCESS"
       THEN /\ status' = to_db_msg(msg).status
            /\ db' = db
       ELSE IF ~DatabaseAvailable(asds_db, _initialized)
       THEN /\ status' = "FAILURE"
            /\ db' = db
       ELSE /\ status' = "SUCCESS"
            /\ db' = Append(db, to_db_msg(msg).db_msg)
    /\ UNCHANGED <<call, _initialized, asds_db>>
    /\ UNCHANGED planner_vars

\* the contents of the metadata file: objects with and without each key, and
\* with members of each kind
TestJson ==
    { JObject(("science_utility_estimate" :> sue) @@ ("priority_bin" :> b)
                @@ ("metadata" :> meta)) :
        sue \in {JFloat(F(500)), JInteger(1), JString("a"), JNull},
        b \in {JInteger(3), JFloat(F(1500)), JNull},
        meta \in {JObject(NoMetadata),
                  JObject(("x" :> JInteger(7)) @@ ("y" :> JFloat(F(250))) @@ ("z" :> JString("a"))
                            @@ ("w" :> JBoolean(TRUE))),
                  JString("a"), JNull} }
      \cup { JObject(NoMetadata),
             JObject(("science_utility_estimate" :> JFloat(F(500)))),
             JObject(("science_utility_estimate" :> JFloat(F(500))) @@ ("priority_bin" :> JInteger(3))) }

TestDpMsgs ==
    { DpMsg("SFI", "cntx", dp_size, metadata_usage, json) :
        dp_size \in {10, 20}, metadata_usage \in BOOLEAN, json \in TestJson }

NextApp ==
    \/ add_asds
    \/ \E bytes \in {0, 128}, database_init \in {"SUCCESS", "FAILURE"},
          asds_requirement \in {0, 123} :
            Application_init_step(bytes, database_init, asds_requirement)
    \/ Application_deinit
    \/ /\ Len(db) < MaxDbRows
       /\ \E msg \in TestDpMsgs : submit_data_product(msg)

SpecApp == InitApp /\ [][NextApp]_vars

(***************************************************************************)
(* The rule parser: _parse_bin on the JSON of one bin.  A parsed           *)
(* expression is the AST record, nullptr is Null.                          *)
(***************************************************************************)
MaxItems == 2

JArray(items) == [kind |-> "array", items |-> items]

is_array(j) == j.kind = "array"
is_boolean(j) == j.kind = "boolean"
is_null(j) == j.kind = "null"

Failed == [status |-> "FAILURE", value |-> Null]
Parsed(value) == [status |-> "SUCCESS", value |-> value]

\* both keys are read with operator[]: a key that is missing reads as null
_get_argument_obj(j_obj, arg) ==
    IF ~is_object(j_obj) THEN [status |-> "FAILURE", result |-> JNull]
    ELSE IF ~is_object(Member(j_obj, "__contents__"))
    THEN [status |-> "FAILURE", result |-> JNull]
    ELSE [status |-> "SUCCESS", result |-> Member(Member(j_obj, "__contents__"), arg)]

_get_obj_type(j_obj) ==
    IF ~is_object(j_obj) THEN [status |-> "FAILURE", type |-> ""]
    ELSE IF ~is_string(Member(j_obj, "__type__")) THEN [status |-> "FAILURE", type |-> ""]
    ELSE [status |-> "SUCCESS", type |-> Member(j_obj, "__type__").string]

\* the strings of an array, elements of any other kind left out
StringsOf(items) ==
    LET strings == SelectSeq(items, is_string)
    IN [k \in 1..Len(strings) |-> strings[k].string]

\* _parse_argument<std::vector<std::string>>
_parse_argument_strings(j_obj, arg) ==
    LET a == _get_argument_obj(j_obj, arg)
    IN IF a.status # "SUCCESS" THEN [status |-> "FAILURE", value |-> <<>>]
       ELSE IF is_array(a.result) THEN Parsed(StringsOf(a.result.items))
       ELSE [status |-> "FAILURE", value |-> <<>>]

\* _parse_argument<std::string>
_parse_argument_string(j_obj, arg) ==
    LET a == _get_argument_obj(j_obj, arg)
    IN IF a.status = "SUCCESS" /\ is_string(a.result) THEN Parsed(a.result.string)
       ELSE [status |-> "FAILURE", value |-> ""]

\* _parse_argument<int>
_parse_argument_int(j_obj, arg) ==
    LET a == _get_argument_obj(j_obj, arg)
    IN IF a.status = "SUCCESS" /\ is_number_integer(a.result) THEN Parsed(a.result.int)
       ELSE [status |-> "FAILURE", value |-> -1]

\* _parse_argument<double>
_parse_argument_double(j_obj, arg) ==
    LET a == _get_argument_obj(j_obj, arg)
    IN IF a.status = "SUCCESS" /\ is_number(a.result) THEN Parsed(get_double(a.result))
       ELSE [status |-> "FAILURE", value |-> F(0)]

\* _parse_argument<bool>
_parse_argument_bool(j_obj, arg) ==
    LET a == _get_argument_obj(j_obj, arg)
    IN IF a.status = "SUCCESS" /\ is_boolean(a.result) THEN Parsed(a.result.bool)
       ELSE [status |-> "FAILURE", value |-> FALSE]

\* _parse_argument<ValueExpression*>: a null argument is answered with
\* SUCCESS and nullptr
RECURSIVE _parse_argument_ValueExpression(_, _)
_parse_argument_ValueExpression(j_obj, arg) ==
    LET a == _get_argument_obj(j_obj, arg)
        j_arg == a.result
        t == _get_obj_type(j_arg)
    IN IF a.status # "SUCCESS" THEN Failed
       ELSE IF is_null(j_arg) THEN Parsed(Null)
       ELSE IF t.status # "SUCCESS" THEN Failed
       ELSE IF t.type = "ConstExpression"
       THEN LET value == _parse_argument_double(j_arg, "value")
            IN IF value.status # "SUCCESS" THEN Failed
               ELSE Parsed(ConstExpression(value.value))
       ELSE IF t.type = "StringConstant"
       THEN LET value == _parse_argument_string(j_arg, "value")
            IN IF value.status # "SUCCESS" THEN Failed
               ELSE Parsed(StringConstant(value.value))
       ELSE IF t.type = "MinusExpression"
       THEN LET expr == _parse_argument_ValueExpression(j_arg, "expression")
            IN IF expr.status # "SUCCESS" THEN Failed
               ELSE Parsed(MinusExpression(expr.value))
       ELSE IF t.type = "BinaryExpression"
       THEN LET op == _parse_argument_string(j_arg, "operator")
                left_expr == _parse_argument_ValueExpression(j_arg, "left_expression")
                right_expr == _parse_argument_ValueExpression(j_arg, "right_expression")
            IN IF op.status # "SUCCESS" THEN Failed
               ELSE IF left_expr.status # "SUCCESS" THEN Failed
               ELSE IF right_expr.status # "SUCCESS" THEN Failed
               ELSE Parsed(BinaryExpression(op.value, left_expr.value, right_expr.value))
       ELSE IF t.type = "Field"
       THEN LET var_name == _parse_argument_string(j_arg, "variable_name")
                field_name == _parse_argument_string(j_arg, "field_name")
            IN IF var_name.status # "SUCCESS" THEN Failed
               ELSE IF field_name.status # "SUCCESS" THEN Failed
               ELSE Parsed(Field(var_name.value, field_name.value))
       ELSE Failed

\* _parse_argument<BoolValueExpression*>: there is no null case, a null
\* argument fails in _get_obj_type
RECURSIVE _parse_argument_BoolValueExpression(_, _)
_parse_argument_BoolValueExpression(j_obj, arg) ==
    LET a == _get_argument_obj(j_obj, arg)
        j_arg == a.result
        t == _get_obj_type(j_arg)
    IN IF a.status # "SUCCESS" THEN Failed
       ELSE IF t.status # "SUCCESS" THEN Failed
       ELSE IF t.type = "LogicalConstant"
       THEN LET value == _parse_argument_bool(j_arg, "value")
            IN IF value.status # "SUCCESS" THEN Failed
               ELSE Parsed(LogicalConstant(value.value))
       ELSE IF t.type = "LogicalNot"
       THEN LET expr == _parse_argument_BoolValueExpression(j_arg, "expression")
            IN IF expr.status # "SUCCESS" THEN Failed
               ELSE Parsed(LogicalNot(expr.value))
       ELSE IF t.type = "BinaryLogicalExpression"
       THEN LET op == _parse_argument_string(j_arg, "operator")
                left_expr == _parse_argument_BoolValueExpression(j_arg, "left_expression")
                right_expr == _parse_argument_BoolValueExpression(j_arg, "right_expression")
            IN IF op.status # "SUCCESS" THEN Failed
               ELSE IF left_expr.status # "SUCCESS" THEN Failed
               ELSE IF right_expr.status # "SUCCESS" THEN Failed
               ELSE Parsed(BinaryLogicalExpression(op.value, left_expr.value, right_expr.value))
       ELSE IF t.type = "ComparatorExpression"
       THEN LET comp == _parse_argument_string(j_arg, "comparator")
                left_expr == _parse_argument_ValueExpression(j_arg, "left_expression")
                right_expr == _parse_argument_ValueExpression(j_arg, "right_expression")
            IN IF comp.status # "SUCCESS" THEN Failed
               ELSE IF left_expr.status # "SUCCESS" THEN Failed
               ELSE IF right_expr.status # "SUCCESS" THEN Failed
               ELSE Parsed(ComparatorExpression(comp.value, left_expr.value, right_expr.value))
       ELSE IF t.type = "ExistentialExpression"
       THEN LET variable == _parse_argument_string(j_arg, "variable")
                expr == _parse_argument_BoolValueExpression(j_arg, "expression")
            IN IF variable.status # "SUCCESS" THEN Failed
               ELSE IF expr.status # "SUCCESS" THEN Failed
               ELSE Parsed(ExistentialExpression(variable.value, expr.value))
       ELSE Failed

_parse_constraint(j_constraint) ==
    LET t == _get_obj_type(j_constraint)
        variables == _parse_argument_strings(j_constraint, "variables")
        application == _parse_argument_BoolValueExpression(j_constraint, "application")
        sum_field == _parse_argument_ValueExpression(j_constraint, "sum_field")
        constraint_value == _parse_argument_double(j_constraint, "constraint_value")
    IN IF t.status # "SUCCESS" \/ t.type # "Constraint" THEN Failed
       ELSE IF variables.status # "SUCCESS" THEN Failed
       ELSE IF application.status # "SUCCESS" THEN Failed
       ELSE IF sum_field.status # "SUCCESS" THEN Failed
       ELSE IF constraint_value.status # "SUCCESS" THEN Failed
       ELSE Parsed(Constraint(variables.value, application.value, sum_field.value,
                              constraint_value.value))

\* a max_applications that does not parse becomes -1
_parse_rule(j_rule) ==
    LET t == _get_obj_type(j_rule)
        variables == _parse_argument_strings(j_rule, "variables")
        application == _parse_argument_BoolValueExpression(j_rule, "application")
        adjustment == _parse_argument_ValueExpression(j_rule, "adjustment")
        max_applications == _parse_argument_int(j_rule, "max_applications")
    IN IF t.status # "SUCCESS" \/ t.type # "Rule" THEN Failed
       ELSE IF variables.status # "SUCCESS" THEN Failed
       ELSE IF application.status # "SUCCESS" THEN Failed
       ELSE IF adjustment.status # "SUCCESS" THEN Failed
       ELSE Parsed(Rule(variables.value, application.value, adjustment.value,
                        IF max_applications.status # "SUCCESS" THEN -1
                        ELSE max_applications.value))

\* the loop over j_rules: a rule is pushed when its status is SUCCESS
RECURSIVE ParseRules(_, _, _)
ParseRules(j_rules, k, rules) ==
    IF k > Len(j_rules) THEN rules
    ELSE ParseRules(j_rules, k + 1,
                    IF _parse_rule(j_rules[k]).status = "SUCCESS"
                    THEN Append(rules, _parse_rule(j_rules[k]).value) ELSE rules)

RECURSIVE ParseConstraints(_, _, _)
ParseConstraints(j_constraints, k, constraints) ==
    IF k > Len(j_constraints) THEN constraints
    ELSE ParseConstraints(j_constraints, k + 1,
                    IF _parse_constraint(j_constraints[k]).status = "SUCCESS"
                    THEN Append(constraints, _parse_constraint(j_constraints[k]).value)
                    ELSE constraints)

_parse_bin(j_bin) ==
    [rules |-> IF is_array(Member(j_bin, "rules"))
               THEN ParseRules(Member(j_bin, "rules").items, 1, <<>>) ELSE <<>>,
     constraints |-> IF is_array(Member(j_bin, "constraints"))
                     THEN ParseConstraints(Member(j_bin, "constraints").items, 1, <<>>)
                     ELSE <<>>]

\* the JSON of an AST node
Node(type, contents) ==
    JObject(("__type__" :> JString(type)) @@ ("__contents__" :> JObject(contents)))

JTrue == Node("LogicalConstant", ("value" :> JBoolean(TRUE)))
JOne == Node("ConstExpression", ("value" :> JFloat(Whole(1))))
JSize == Node("Field", ("variable_name" :> JString("x")) @@ ("field_name" :> JString("size")))
JVars == JArray(<<JString("x")>>)

\* the contents of a rule: complete, and with a key missing or wrong
RuleContents ==
    ("variables" :> JVars) @@ ("application" :> JTrue) @@ ("adjustment" :> JOne)
        @@ ("max_applications" :> JInteger(1))

Without(contents, key) == [k \in DOMAIN contents \ {key} |-> contents[k]]
With(contents, key, j) == (key :> j) @@ contents

TestRuleJson ==
    { Node("Rule", RuleContents),
      Node("Rule", With(RuleContents, "adjustment",
                        Node("MinusExpression", ("expression" :> JSize)))),
      Node("Rule", Without(RuleContents, "max_applications")),
      Node("Rule", Without(RuleContents, "adjustment")),
      Node("Rule", Without(RuleContents, "application")),
      Node("Rule", With(RuleContents, "adjustment", Node("MinusExpression", NoMetadata))),
      Node("Rule", With(RuleContents, "adjustment", Node("Logarithm", ("value" :> JOne)))),
      Node("Rule", With(RuleContents, "adjustment", JString("1.0"))),
      Node("Rule", With(RuleContents, "adjustment",
                        Node("ConstExpression", ("value" :> JString("1.0"))))),
      Node("Rule", With(RuleContents, "application", Node("LogicalNot", NoMetadata))),
      Node("Role", RuleContents) }

ConstraintContents ==
    ("variables" :> JVars) @@ ("application" :> JTrue) @@ ("sum_field" :> JSize)
        @@ ("constraint_value" :> JInteger(50))

TestConstraintJson ==
    { Node("Constraint", ConstraintContents),
      Node("Constraint", With(ConstraintContents, "sum_field", JNull)),
      Node("Constraint", Without(ConstraintContents, "sum_field")),
      Node("Constraint", Without(ConstraintContents, "constraint_value")),
      Node("Constraint", Without(ConstraintContents, "application")),
      Node("Constraint", With(ConstraintContents, "constraint_value", JString("50"))) }

JsonListsUpTo(S, n) == UNION { [1..k -> S] : k \in 0..n }

TestBinJson ==
    { JObject(("rules" :> JArray(j_rules)) @@ ("constraints" :> JArray(j_constraints))) :
        j_rules \in JsonListsUpTo(TestRuleJson, MaxItems),
        j_constraints \in JsonListsUpTo(TestConstraintJson, MaxItems - 1) }

parse_bin_call(j_bin) ==
    /\ call.op = "none"
    /\ call' = [op |-> "_parse_bin", j_bin |-> j_bin, result |-> _parse_bin(j_bin)]
    /\ UNCHANGED <<db, pc, rule_configuration_id, similarity_configuration_id, binned_asdps,
                   bin, asdps, prioritized, cumulative_size, cumulative_sue, i, maxiter, cache,
                   prioritized_list, status, step>>
    /\ UNCHANGED lifecycle

\* one call is made from the initial state
NextParse ==
    /\ call.op = "none"
    /\ \E j_bin \in TestBinJson : parse_bin_call(j_bin)

SpecParse == Init /\ [][NextParse]_vars

(***************************************************************************)
(* Application::init followed by Application::deinit, with the calls each  *)
(* makes on the modules, in call order.                                    *)
(***************************************************************************)
DatabaseModule == [kind |-> "database", index |-> 0]
AsdsModule(k) == [kind |-> "asds", index |-> k]
PlannerModule == [kind |-> "planner", index |-> 0]

\* the order of Application::init: the database, asds[0..n_asds-1], the planner
InitOrder(n_asds) ==
    <<DatabaseModule>> \o [k \in 1..n_asds |-> AsdsModule(k - 1)] \o <<PlannerModule>>

\* the calls of Application::init from modules[k] on: init is called on the
\* block of mem bytes at the offset, then its status is tested, then the
\* offset is advanced and compared with bytes
RECURSIVE InitCalls(_, _, _, _, _)
InitCalls(modules, k, offset, bytes, calls) ==
    IF k > Len(modules) THEN calls
    ELSE LET mem == Padded(modules[k].memory_requirement)
             made == Append(calls, [module |-> InitOrder(Len(modules) - 2)[k],
                                    bytes |-> mem, offset |-> offset,
                                    status |-> modules[k].init])
         IN IF modules[k].init # "SUCCESS" THEN made
            ELSE IF offset + mem > bytes THEN made
            ELSE InitCalls(modules, k + 1, offset + mem, bytes, made)

Application_init_calls(bytes, database, asds, planner) ==
    InitCalls(<<database>> \o asds \o <<planner>>, 1, 0, bytes, <<>>)

\* the order of Application::deinit: the planner, then the loop
\* for (int i = 0; i < this->n_asds; i++), then the database
DeinitOrder(n_asds) ==
    <<PlannerModule>> \o [k \in 1..n_asds |-> AsdsModule(k - 1)] \o <<DatabaseModule>>

\* the calls of Application::deinit; failing is the position in DeinitOrder of
\* a module whose deinit does not answer SUCCESS (0: none), at which deinit returns
Application_deinit_calls(n_asds, failing) ==
    IF failing \in 1..Len(DeinitOrder(n_asds))
    THEN SubSeq(DeinitOrder(n_asds), 1, failing)
    ELSE DeinitOrder(n_asds)

ModuleRequirements == {0, 5}
LifecycleModules ==
    { Module(requirement, init_status) :
        requirement \in ModuleRequirements, init_status \in {"SUCCESS", "FAILURE"} }
LifecycleLists == JsonListsUpTo(LifecycleModules, MaxAsds)
LifecycleBytes == {8 * k : k \in 0..(MaxAsds + 1)}

init_step(bytes, database, asds, planner) ==
    /\ call.op = "none"
    /\ call' = [op |-> "Application::init", bytes |-> bytes, n_asds |-> Len(asds),
                calls |-> Application_init_calls(bytes, database, asds, planner),
                status |-> Application_init(bytes, database, asds, planner).status]
    /\ UNCHANGED <<db, pc, rule_configuration_id, similarity_configuration_id, binned_asdps,
                   bin, asdps, prioritized, cumulative_size, cumulative_sue, i, maxiter, cache,
                   prioritized_list, status, step>>
    /\ UNCHANGED lifecycle

deinit_step(failing) ==
    /\ call.op = "Application::init"
    /\ call' = [op |-> "Application::deinit", n_asds |-> call.n_asds, init |-> call,
                failing |-> failing,
                calls |-> Application_deinit_calls(call.n_asds, failing),
                status |-> IF failing \in 1..(call.n_asds + 2) THEN "FAILURE" ELSE "SUCCESS"]
    /\ UNCHANGED <<db, pc, rule_configuration_id, similarity_configuration_id, binned_asdps,
                   bin, asdps, prioritized, cumulative_size, cumulative_sue, i, maxiter, cache,
                   prioritized_list, status, step>>
    /\ UNCHANGED lifecycle

NextModules ==
    \/ \E bytes \in LifecycleBytes, database \in LifecycleModules,
          planner \in LifecycleModules, asds \in LifecycleLists :
            init_step(bytes, database, asds, planner)
    \/ \E failing \in 0..(MaxAsds + 2) : deinit_step(failing)

SpecModules == Init /\ [][NextModules]_vars

(***************************************************************************)
(* Timer: a timer is constructed, started and restarted, and asked whether *)
(* it is expired; Clock::get_time answers each call with a positive time.  *)
(***************************************************************************)
MaxTime == 4

\* Clock::get_time: "Must return a positive value"; successive readings are in
\* no particular order, the clock of LinuxClock being the wall clock
ClockTimes == 1..MaxTime
TimerDurations == 0..MaxTime

\* Timer::Timer: start_time(-1.0).  started, restarted and started_at record
\* the calls of start that were made; asked, now and expired record the last
\* is_expired since the last start and the clock reading it got
Timer(duration) ==
    [constructed |-> TRUE, duration |-> duration, start_time |-> -1,
     started |-> FALSE, restarted |-> FALSE, started_at |-> 0,
     asked |-> FALSE, now |-> 0, expired |-> FALSE]

\* this->start_time = this->_clock->get_time()
Timer_start(t, now) == [t EXCEPT !.start_time = now]

\* an is_expired that does not look whether the timer was started
Timer_is_expired_unstarted(t, now) == is_expired(now - t.start_time, t.duration)

\* Timer::is_expired: not expired if it hasn't been started
Timer_is_expired(t, now) ==
    IF t.start_time < 0 THEN FALSE
    ELSE is_expired(now - t.start_time, t.duration)

timer_frame == <<db, pc, rule_configuration_id, similarity_configuration_id, binned_asdps,
                 bin, asdps, prioritized, cumulative_size, cumulative_sue, i, maxiter, cache,
                 prioritized_list, status, step, call, _initialized, asds_db, returned>>

construct(duration) ==
    /\ ~timer.constructed
    /\ timer' = Timer(duration)
    /\ UNCHANGED timer_frame

start(now) ==
    /\ timer.constructed
    /\ timer' = [Timer_start(timer, now) EXCEPT !.started = TRUE,
                                               !.restarted = timer.started,
                                               !.started_at = now,
                                               !.asked = FALSE, !.now = 0,
                                               !.expired = FALSE]
    /\ UNCHANGED timer_frame

is_expired_call(now) ==
    /\ timer.constructed
    /\ timer' = [timer EXCEPT !.asked = TRUE, !.now = now,
                              !.expired = Timer_is_expired(timer, now)]
    /\ UNCHANGED timer_frame

NextTimer ==
    \/ \E duration \in TimerDurations : construct(duration)
    \/ \E now \in ClockTimes : start(now)
    \/ \E now \in ClockTimes : is_expired_call(now)

SpecTimer == Init /\ [][NextTimer]_vars

(***************************************************************************)
(* The caller keeps one list across calls of prioritize: a call pushes the *)
(* ids it selects onto what the list holds, and the caller may clear it.   *)
(***************************************************************************)
\* a call is made into a list of at most MaxKept ids
MaxKept == 2

\* the catalog has at most MaxKeptRows rows
MaxKeptRows == 2

\* the downlink states the rows are put in between the calls
KeptStates == {"UNTRANSMITTED", "DOWNLINKED"}

\* the rule configurations of the calls
KeptRuleConfigs == {"", "size_cap"}

\* the data products submitted between the calls
KeptMessages ==
    { DpDbMsg("SFI", "cntx", 10, Whole(1), 1, "UNTRANSMITTED", ("x" :> FloatValue(Whole(0)))),
      DpDbMsg("SFI", "zoom", 40, Whole(5), 1, "UNTRANSMITTED", NoMetadata) }

\* the ids the running call has pushed onto the list it was given
Added == SubSeq(prioritized_list, Len(returned.list) + 1, Len(prioritized_list))

\* return SUCCESS; the list is the caller's and stays as the bins left it
prioritize_return_kept(timer_is_expired) ==
    /\ pc = "bins"
    /\ DOMAIN binned_asdps = {}
    /\ status' = ReturnStatus(timer_is_expired)
    /\ pc' = "idle"
    /\ returned' = [list |-> prioritized_list, added |-> Added, db |-> db,
                    rule_configuration_id |-> rule_configuration_id,
                    similarity_configuration_id |-> similarity_configuration_id]
    /\ rule_configuration_id' = ""
    /\ similarity_configuration_id' = ""
    /\ ResetLocals
    /\ UNCHANGED <<db, binned_asdps, call, prioritized_list, _initialized, asds_db, timer>>

\* prioritized_list.clear(), as owls_prioritize_data does before its call
clear ==
    /\ pc = "idle"
    /\ prioritized_list # <<>>
    /\ prioritized_list' = <<>>
    /\ returned' = NoReturn
    /\ UNCHANGED <<db, pc, rule_configuration_id, similarity_configuration_id, binned_asdps,
                   bin, asdps, prioritized, cumulative_size, cumulative_sue, i, maxiter,
                   cache, status, step, call, _initialized, asds_db, timer>>

NextKept ==
    \/ /\ Len(db) < MaxKeptRows
       /\ \E msg \in KeptMessages : insert_data_product(msg)
    \/ \E asdp_id \in 1..MaxKeptRows, state \in KeptStates :
            update_downlink_state(asdp_id, state)
    \/ /\ Len(prioritized_list) <= MaxKept
       /\ \E duration \in Durations, elapsed \in Elapsed, fault \in Faults :
            /\ prioritize_load(duration, elapsed, fault)
            /\ rule_configuration_id' \in KeptRuleConfigs
            /\ similarity_configuration_id' = ""
    \/ prioritize_bin_enter
    \/ prioritize_bin_iterate
    \/ prioritize_bin_return
    \/ \E timer_is_expired \in BOOLEAN : prioritize_return_kept(timer_is_expired)
    \/ clear

SpecKept == Init /\ [][NextKept]_vars

(***************************************************************************)
(* Properties of the planner.                                              *)
(***************************************************************************)
\* the state from which prioritize returns SUCCESS: every bin has been prioritized
Returning == pc = "bins" /\ DOMAIN binned_asdps = {}

\* the ids the running call has appended to the caller's list
Output == prioritized_list

Chosen == step.evals[step.best_idx + 1]

\* C1: in each iteration of _prioritize_bin the appended ASDP is a candidate whose
\* candidate queue satisfies the constraints, its relative utility is at least
\* that of every other such candidate, and strictly greater than that of every
\* such candidate earlier in scan order.
C1_GreatestRelativeUtility ==
    (step.taken /\ step.best_idx >= 0) =>
        /\ Chosen.satisfied
        /\ \A k \in 1..Len(step.evals) :
              (k # step.best_idx + 1 /\ step.evals[k].satisfied) =>
                  /\ QGe(Chosen.relative_utility, step.evals[k].relative_utility)
                  /\ k < step.best_idx + 1 =>
                        QGt(Chosen.relative_utility, step.evals[k].relative_utility)

\* C2: every non-empty queue _prioritize_bin builds satisfies every constraint
\* that get_constraints returns for the bin.
C2_PrefixSatisfiesConstraints ==
    (pc \in {"select", "collect"} /\ Len(prioritized) > 0) =>
        LET constraints == get_constraints(parse_rule_config(rule_configuration_id), bin)
        IN \A k \in 1..Len(constraints) : Constraint_apply(constraints[k], prioritized)

\* C3: the list a prioritize call builds never holds the id of a row that is
\* DOWNLINKED in the catalog the call reads.
C3_DownlinkedExcluded ==
    pc # "idle" =>
        \A k \in 1..Len(Output) : db[Output[k]].downlink_state # "DOWNLINKED"

C3_Witness ==
    /\ Returning
    /\ Len(Output) > 0
    /\ \E r \in 1..Len(db) : db[r].downlink_state = "DOWNLINKED"
    /\ \E r \in 1..Len(db) : db[r].downlink_state = "TRANSMITTED"

\* C4: the ids of the output are in ascending order of priority bin, and the
\* ids of a bin are appended in the order _prioritize_bin selected them.
C4_AscendingBins ==
    pc # "idle" =>
        /\ \A p, q \in 1..Len(Output) :
              p < q => db[Output[p]].priority_bin <= db[Output[q]].priority_bin
        /\ pc = "bins" =>
              /\ Len(prioritized) <= Len(Output)
              /\ SubSeq(Output, Len(Output) - Len(prioritized) + 1, Len(Output))
                    = prioritized_ids(prioritized)

C4_Witness ==
    /\ Returning
    /\ \E p, q \in 1..Len(Output) :
          /\ p < q
          /\ Output[p] > Output[q]
          /\ db[Output[p]].priority_bin = -1
          /\ db[Output[q]].priority_bin = 1

\* the catalog of the example: rows 1, 2, 3 with (size, SUE) = (10, 1.0), (20, 3.0), (40, 5.0)
ExampleCatalog ==
    /\ Len(db) = 3
    /\ \A r \in 1..3 : db[r].priority_bin = 1 /\ db[r].downlink_state = "UNTRANSMITTED"
    /\ <<db[1].dp_size, db[2].dp_size, db[3].dp_size>> = <<10, 20, 40>>
    /\ <<db[1].science_utility_estimate, db[2].science_utility_estimate,
         db[3].science_utility_estimate>> = <<Whole(1), Whole(3), Whole(5)>>

Plain == rule_configuration_id = "" /\ similarity_configuration_id = ""

OwnRatio(r) == FDiv(db[r].science_utility_estimate, db[r].dp_size)

\* C5 as stated: with one bin, no rules and no similarity the output is in
\* descending order of the rows' own SUE / size, and the example returns [2, 3, 1].
C5_DescendingOwnRatio ==
    (Returning /\ Plain /\ \A r \in 1..Len(db) : db[r].priority_bin = 1) =>
        /\ \A p, q \in 1..Len(Output) : p < q => QGe(OwnRatio(Output[p]), OwnRatio(Output[q]))
        /\ ExampleCatalog => Output = <<2, 3, 1>>

\* the relative utility of row r as a successor of the queue of the last step
StepRatio(r) ==
    FDiv(FAdd(step.cumulative_sue, db[r].science_utility_estimate),
         step.cumulative_size + db[r].dp_size)

\* C5: with no rules and no similarity every step appends the remaining row that
\* maximises (cumulative SUE + SUE) / (cumulative size + size), the earliest in
\* scan order among equals, and the example returns [2, 1, 3].
C5_GreedyCumulativeRatio ==
    /\ (pc # "idle" /\ Plain /\ step.taken) =>
          /\ step.best_idx >= 0
          /\ \A k \in 1..Len(step.evals) :
                /\ QGe(StepRatio(Chosen.id), StepRatio(step.evals[k].id))
                /\ k < step.best_idx + 1 =>
                      QGt(StepRatio(Chosen.id), StepRatio(step.evals[k].id))
    /\ (Returning /\ Plain /\ ExampleCatalog) => Output = <<2, 1, 3>>

C5_Witness ==
    /\ Returning
    /\ Plain
    /\ ExampleCatalog
    /\ Output = <<2, 1, 3>>
    /\ QGt(OwnRatio(3), OwnRatio(1))

(***************************************************************************)
(* Properties of Rule::apply, Constraint::apply, RuleSet::apply and        *)
(* _extract_dd.                                                            *)
(***************************************************************************)
\* C6: a rule with max_applications = k >= 0 and one or two variables adds its
\* adjustment to the running total at most k times.
C6_AtMostMaxApplications ==
    (/\ call.op = "Rule::apply"
     /\ Len(call.rule.variables) \in {1, 2}
     /\ call.rule.max_applications >= 0) =>
        call.result.n_applications <= call.rule.max_applications

IsMissingField(e) == e.node = "Field" /\ e.field_name = "missing"

\* the rules of a list whose adjustment is not the NaN of a missing field
RECURSIVE WithoutNaNRules(_)
WithoutNaNRules(rules) ==
    IF rules = <<>> THEN <<>>
    ELSE IF IsMissingField(Head(rules).adjustment_expression) THEN WithoutNaNRules(Tail(rules))
    ELSE <<Head(rules)>> \o WithoutNaNRules(Tail(rules))

\* C7: a rule whose adjustment evaluates to NaN contributes nothing: the utility
\* adjustment RuleSet::apply returns is the one it returns without that rule.
C7_NaNContributesNothing ==
    (call.op = "RuleSet::apply" /\ call.result.first) =>
        call.result.second =
            SumRules(WithoutNaNRules(get_rules(call.ruleset, call.bin)), call.queue, 1, F(0))

\* C8: _extract_dd returns, for each descriptor that names an Integer or Float
\* field of the ASDP, the numeric value of the field times the weight at the
\* same index, or the numeric value alone when there is no such weight.
C8_NumericValueTimesWeight ==
    call.op = "_extract_dd" =>
        /\ Len(call.result) = Len(call.sf.diversity_descriptors)
        /\ \A k \in 1..Len(call.result) :
              LET name == call.sf.diversity_descriptors[k]
              IN (name \in DOMAIN call.asdp /\ is_numeric(call.asdp[name])) =>
                    call.result[k] =
                        IF k <= Len(call.sf.dd_factors)
                        THEN FMul(get_numeric(call.asdp[name]), call.sf.dd_factors[k])
                        ELSE get_numeric(call.asdp[name])

\* the list registered for a bin in a map, the default list when there is none
ListFor(map, default, b) == IF b \in DOMAIN map THEN map[b] ELSE default

RECURSIVE SumOfRules(_, _)
SumOfRules(rules, queue) ==
    IF rules = <<>> THEN F(0)
    ELSE FAdd(SumOfRules(SubSeq(rules, 1, Len(rules) - 1), queue),
              Rule_apply(rules[Len(rules)], queue))

\* C9: RuleSet::apply uses the lists registered for the bin when the bin has an
\* entry and the default lists otherwise; it returns (false, 0.0) at the first
\* constraint that fails, having evaluated the constraints before it and applied
\* no rule, and otherwise (true, the sum of Rule::apply over the bin's rules).
C9_BinListsOrDefaults ==
    call.op = "RuleSet::apply" =>
        LET constraints == ListFor(call.ruleset.constraint_map,
                                   call.ruleset.default_constraints, call.bin)
            rules == ListFor(call.ruleset.rule_map, call.ruleset.default_rules, call.bin)
            failing == {k \in 1..Len(constraints) : ~Constraint_apply(constraints[k], call.queue)}
        IN IF failing # {}
           THEN /\ call.result.first = FALSE
                /\ call.result.second = F(0)
                /\ call.result.constraints_evaluated \in failing
                /\ \A k \in failing : call.result.constraints_evaluated <= k
                /\ call.result.rules_applied = 0
           ELSE /\ call.result.first = TRUE
                /\ call.result.second = SumOfRules(rules, call.queue)
                /\ call.result.rules_applied = Len(rules)

C9_Witness ==
    /\ call.op = "RuleSet::apply"
    /\ call.bin \in DOMAIN call.ruleset.constraint_map
    /\ call.ruleset.constraint_map[call.bin] = <<>>
    /\ call.ruleset.rule_map[call.bin] = <<>>
    /\ call.ruleset.default_rules # <<>>
    /\ \E k \in 1..Len(call.ruleset.default_constraints) :
          ~Constraint_apply(call.ruleset.default_constraints[k], call.queue)
    /\ call.result.first = TRUE
    /\ call.result.second = F(0)

\* the ASDPs of a list for which the application expression of a constraint is true
Applicable(constraint, list) ==
    {k \in 1..Len(list) :
        BoolValueExpression_get_value(constraint.application_expression,
                                      (constraint.variables[1] :> list[k]), list)}

SumFieldValue(constraint, list, k) ==
    ValueExpression_get_value(constraint.sum_field, (constraint.variables[1] :> list[k]), list)

RECURSIVE SumOver(_, _, _)
SumOver(constraint, list, indices) ==
    IF indices = {} THEN F(0)
    ELSE LET k == CHOOSE n \in indices : TRUE
         IN FAdd(get_numeric(SumFieldValue(constraint, list, k)),
                 SumOver(constraint, list, indices \ {k}))

Aggregate(constraint, list) ==
    IF constraint.sum_field.node = "null"
    THEN Whole(Cardinality(Applicable(constraint, list)))
    ELSE SumOver(constraint, list,
                 {k \in Applicable(constraint, list) : is_numeric(SumFieldValue(constraint, list, k))})

\* C10: Constraint::apply with one variable returns true iff aggregate <
\* constraint_value, the aggregate being the sum of the numeric sum_field values
\* of the applicable ASDPs, or their count when sum_field is null.
C10_StrictlyLessThan ==
    (call.op = "Constraint::apply" /\ Len(call.constraint.variables) = 1) =>
        (call.result <=>
            FLt(Aggregate(call.constraint, call.asdps), call.constraint.constraint_value))

C10_Witness ==
    /\ call.op = "Constraint::apply"
    /\ Len(call.constraint.variables) = 1
    /\ call.constraint.sum_field.node # "null"
    /\ Applicable(call.constraint, call.asdps) # {}
    /\ FEq(Aggregate(call.constraint, call.asdps), call.constraint.constraint_value)
    /\ FGt(call.constraint.constraint_value, F(0))
    /\ call.result = FALSE

(***************************************************************************)
(* Properties of the similarity discount.                                  *)
(***************************************************************************)
\* the similarity functions in force for the bin of the last step
StepFunctions ==
    LET similarity == parse_similarity_config(similarity_configuration_id)
    IN IF step.bin \in DOMAIN similarity.functions
       THEN similarity.functions[step.bin] ELSE similarity.default_functions

\* the similarities of an ASDP to the queued ASDPs of its (instrument_name, type)
PairwiseSimilarities(asdp, queue) ==
    {get_similarity(StepFunctions[inst_type(asdp)], asdp, queue[k]) :
        k \in {n \in 1..Len(queue) : inst_type(queue[n]) = inst_type(asdp)}}

Greatest(S) == IF S = {} THEN F(0) ELSE CHOOSE m \in S : \A x \in S : FLe(x, m)

\* C11: get_max_similarity is 0.0 for an empty queue or a candidate without a
\* similarity function, and otherwise the greatest pairwise similarity of the
\* candidate to the queued ASDPs of its (instrument_name, type), 0.0 if none.
C11_MaxSimilarity ==
    (pc # "idle" /\ step.taken) =>
        \A k \in 1..Len(step.evals) :
            LET asdp == step.evals[k].candidate[Len(step.evals[k].candidate)]
            IN step.evals[k].max_similarity =
                  IF step.queue = <<>> \/ inst_type(asdp) \notin DOMAIN StepFunctions
                  THEN F(0)
                  ELSE Greatest(PairwiseSimilarities(asdp, step.queue))

C11_Witness ==
    /\ pc # "idle"
    /\ step.taken
    /\ \E k \in 1..Len(step.evals) :
          LET asdp == step.evals[k].candidate[Len(step.evals[k].candidate)]
          IN /\ inst_type(asdp) \in DOMAIN StepFunctions
             /\ Cardinality(PairwiseSimilarities(asdp, step.queue)) = 2
             /\ FGt(step.evals[k].max_similarity, F(0))

\* the ASDPs of the bin being prioritized
BinAsdps == {asdps[k] : k \in 1..Len(asdps)} \cup {prioritized[k] : k \in 1..Len(prioritized)}

\* C12: every key of the cache is a pair (i, j) with i <= j, so there is one
\* entry per unordered pair of ids; a lookup of (a, b) and a lookup of (b, a)
\* with the same function return the same value, whichever comes first; and
\* while a Similarity instance lives no entry of its cache changes or goes.
C12_CacheSortedStable ==
    /\ [](/\ \A key \in DOMAIN cache : key[1] <= key[2]
          /\ \A a, b \in BinAsdps : \A st \in DOMAIN StepFunctions :
                LET sf == StepFunctions[st]
                    ab == _get_cached_similarity(cache, sf, a, b)
                    ba == _get_cached_similarity(cache, sf, b, a)
                IN /\ ab.similarity = ba.similarity
                   /\ _get_cached_similarity(ab.cache, sf, b, a).similarity = ab.similarity
                   /\ _get_cached_similarity(ba.cache, sf, a, b).similarity = ba.similarity)
    /\ [][(pc \in {"select", "collect"}) =>
            (\A key \in DOMAIN cache : key \in DOMAIN cache' /\ cache[key] = cache'[key])]_vars

C12_Witness ==
    /\ pc = "select"
    /\ Cardinality(DOMAIN cache) >= 2
    /\ \E key \in DOMAIN cache : FLt(cache[key], Whole(1)) /\ FGt(cache[key], F(0))
    /\ Len(asdps) > 0

(***************************************************************************)
(* Properties of the deadline and of the returned status.                  *)
(***************************************************************************)
\* a scan of the present catalog in which every read succeeds
ScanCompletes(fault) == fault \notin 1..Len(db)

C14_ListUntouchedOnFailure ==
    [][/\ \A duration \in Durations, elapsed \in Elapsed, fault \in Faults :
             (/\ pc = "idle"
              /\ pc' = "idle"
              /\ db' = db
              /\ prioritize_load(duration, elapsed, fault)) =>
                    (status' # "SUCCESS" /\ prioritized_list' = prioritized_list)
       /\ \A timer_is_expired \in BOOLEAN :
             (/\ Returning
              /\ status' # "SUCCESS"
              /\ prioritize_return(timer_is_expired)) =>
                 (Output = <<>>)]_vars

\* a call has just returned FAILURE: the read of a later row failed
C14_Witness ==
    /\ pc = "idle"
    /\ status = "FAILURE"
    /\ Len(db) = MaxRows
    /\ ScanStatus(list_data_product_ids, 2) = "FAILURE"
    /\ prioritized_list = <<>>

(***************************************************************************)
(* Properties of the boolean expressions.                                  *)
(***************************************************************************)
IsGetValue(node) == call.op = "BoolValueExpression::get_value" /\ call.expr.node = node

\* the logged get_value calls on the node at the given position
VisitsAt(path) == SelectSeq(call.result.evaluated, LAMBDA visit : visit.path = path)

LeftValue == BoolValueExpression_get_value(call.expr.left, call.assignments, call.asdps)
RightValue == BoolValueExpression_get_value(call.expr.right, call.assignments, call.asdps)

ShortCircuits ==
    (call.expr.op = "AND" /\ ~LeftValue) \/ (call.expr.op = "OR" /\ LeftValue)

\* C15: the right operand of an AND whose left operand is false, or of an OR
\* whose left operand is true, is not evaluated; in the other cases of AND and
\* OR it is evaluated exactly once and its value is the result.
C15_ShortCircuit ==
    (IsGetValue("BinaryLogicalExpression") /\ call.expr.op \in {"AND", "OR"}) =>
        /\ Len(VisitsAt(<<"left">>)) = 1
        /\ IF ShortCircuits
           THEN Len(VisitsAt(<<"right">>)) = 0
           ELSE Len(VisitsAt(<<"right">>)) = 1 /\ call.result.value = RightValue
        /\ call.result.value =
              BoolValueExpression_get_value(call.expr, call.assignments, call.asdps)

\* an AND with a false left operand and a right operand that is true
C15_Witness ==
    /\ IsGetValue("BinaryLogicalExpression")
    /\ call.expr.op = "AND"
    /\ ~LeftValue
    /\ RightValue
    /\ call.expr.right.node = "ExistentialExpression"
    /\ ~call.result.value
    /\ Len(VisitsAt(<<"right">>)) = 0

LeftOperand == ValueExpression_get_value(call.expr.left, call.assignments, call.asdps)
RightOperand == ValueExpression_get_value(call.expr.right, call.assignments, call.asdps)

\* the comparison of two doubles: with a NaN only != is true
DoubleCompare(comp, a, b) ==
    IF a.nan \/ b.nan THEN comp = "!="
    ELSE \/ comp = "==" /\ a.v = b.v
         \/ comp = "!=" /\ a.v # b.v
         \/ comp = ">" /\ a.v > b.v
         \/ comp = ">=" /\ a.v >= b.v
         \/ comp = "<" /\ a.v < b.v
         \/ comp = "<=" /\ a.v <= b.v

\* C16: a comparator returns the comparison as doubles of two numeric
\* operands, the equality or inequality of two strings for == and !=, and
\* false in every other case: one operand numeric and the other not (for
\* every comparator, != included), an ordering of two strings, an unknown
\* comparator.
C16_Comparator ==
    IsGetValue("ComparatorExpression") =>
        call.result.value =
            IF is_numeric(LeftOperand) /\ is_numeric(RightOperand)
            THEN DoubleCompare(call.expr.comp, get_numeric(LeftOperand), get_numeric(RightOperand))
            ELSE IF LeftOperand.type = "STRING" /\ RightOperand.type = "STRING"
            THEN \/ call.expr.comp = "==" /\ LeftOperand.string_value = RightOperand.string_value
                 \/ call.expr.comp = "!=" /\ LeftOperand.string_value # RightOperand.string_value
            ELSE FALSE

\* a number and a string compared with !=
C16_Witness ==
    /\ IsGetValue("ComparatorExpression")
    /\ call.expr.comp = "!="
    /\ LeftOperand.type = "INT"
    /\ RightOperand.type = "STRING"
    /\ ~call.result.value

\* the caller's assignments with var bound to asdp
Extended(var, asdp) ==
    [x \in DOMAIN call.assignments \cup {var} |->
        IF x = var THEN asdp ELSE call.assignments[x]]

BodyValue(asdp) ==
    BoolValueExpression_get_value(call.expr.expr, Extended(call.expr.var, asdp), call.asdps)

\* C17: an existential is true iff some ASDP of the list makes its body true
\* with the variable bound to it; the body is evaluated on the ASDPs in list
\* order up to the first that makes it true, each time under the caller's
\* assignments with only the variable rebound; the call itself sees the
\* caller's assignments; the result is false for an empty list.
C17_Existential ==
    IsGetValue("ExistentialExpression") =>
        /\ call.result.value = (\E k \in 1..Len(call.asdps) : BodyValue(call.asdps[k]))
        /\ Len(VisitsAt(<<"expr">>)) <= Len(call.asdps)
        /\ \A k \in 1..Len(VisitsAt(<<"expr">>)) :
              /\ VisitsAt(<<"expr">>)[k].assignments = Extended(call.expr.var, call.asdps[k])
              /\ BodyValue(call.asdps[k]) = (call.result.value /\ k = Len(VisitsAt(<<"expr">>)))
        /\ ~call.result.value => Len(VisitsAt(<<"expr">>)) = Len(call.asdps)
        /\ VisitsAt(<<>>)[1].assignments = call.assignments
        /\ call.asdps = <<>> => ~call.result.value

\* the body reads an outer binding and is true for the second ASDP only
C17_Witness ==
    /\ IsGetValue("ExistentialExpression")
    /\ call.expr.var = "y"
    /\ call.expr.expr = LargerY
    /\ DOMAIN call.assignments = {"x", "y"}
    /\ Len(call.asdps) = MaxLen
    /\ call.result.value
    /\ Len(VisitsAt(<<"expr">>)) = 2

(***************************************************************************)
(* Properties of the catalog.                                              *)
(***************************************************************************)
\* what an update of one field of row asdp_id must do: found tells whether the
\* row (and field) exists, expected is the message a get must then return
UpdateContract(asdp_id, found, expected) ==
    IF found
    THEN /\ status' = "SUCCESS"
         /\ get_data_product(db', asdp_id) = [status |-> "SUCCESS", msg |-> expected]
         /\ \A other \in DbIds \ {asdp_id} :
               get_data_product(db', other) = get_data_product(db, other)
    ELSE /\ status' = "FAILURE"
         /\ db' = db

Before(asdp_id) == get_data_product(db, asdp_id).msg

\* C18: each of the four updates returns SUCCESS iff the row exists (for
\* update_metadata: iff the row has the field); then a get of the row returns
\* the new value in that field and what it returned before in every other
\* field and for every other id; on FAILURE the catalog is unchanged; a get
\* of an id that has no row returns FAILURE, a get of a row returns the row.
C18_UpdatesAndGet ==
    /\ [][\A asdp_id \in DbIds :
            /\ \A sue \in NewSues :
                  update_science_utility(asdp_id, sue) =>
                      UpdateContract(asdp_id, asdp_id \in 1..Len(db),
                          [Before(asdp_id) EXCEPT !.science_utility_estimate = sue])
            /\ \A b \in NewBins :
                  update_priority_bin(asdp_id, b) =>
                      UpdateContract(asdp_id, asdp_id \in 1..Len(db),
                          [Before(asdp_id) EXCEPT !.priority_bin = b])
            /\ \A state \in NewStates :
                  update_downlink_state(asdp_id, state) =>
                      UpdateContract(asdp_id, asdp_id \in 1..Len(db),
                          [Before(asdp_id) EXCEPT !.downlink_state = state])
            /\ \A fieldname \in Fieldnames, value \in NewValues :
                  update_metadata(asdp_id, fieldname, value) =>
                      UpdateContract(asdp_id,
                          asdp_id \in 1..Len(db) /\ fieldname \in DOMAIN db[asdp_id].metadata,
                          [Before(asdp_id) EXCEPT !.metadata = [@ EXCEPT ![fieldname] = value]])
         ]_vars
    /\ [](call.op = "get_data_product" =>
            /\ status = call.result.status
            /\ (call.result.status = "FAILURE") <=> (call.asdp_id \notin 1..Len(db))
            /\ (call.result.status = "SUCCESS") =>
                  /\ call.result.msg.dp_id = call.asdp_id
                  /\ \A f \in DOMAIN db[call.asdp_id] :
                        call.result.msg[f] = db[call.asdp_id][f])

\* the second row has had each of its fields updated, the first none, and a
\* get of the second row has returned the new values
C18_Witness ==
    /\ call.op = "get_data_product"
    /\ call.asdp_id = 2
    /\ call.result.status = "SUCCESS"
    /\ call.result.msg.science_utility_estimate = F(500)
    /\ call.result.msg.priority_bin = 17
    /\ call.result.msg.downlink_state = "TRANSMITTED"
    /\ call.result.msg.metadata = ("x" :> IntValue(7))
    /\ db[1] \in DbMessages

(***************************************************************************)
(* Properties of Application::init.                                        *)
(***************************************************************************)
IsInit == call.op = "Application::init"

EveryInitSucceeds ==
    /\ call.database.init = "SUCCESS"
    /\ call.planner.init = "SUCCESS"
    /\ \A k \in 1..Len(call.asds) : call.asds[k].init = "SUCCESS"

\* the padded requirements of all the modules init initializes
PaddedSum ==
    SumPadded(<<call.database>> \o call.asds \o <<call.planner>>, 1)

\* C19: Application::init returns SUCCESS whenever bytes is at least
\* Application::memory_requirement() and every module's init succeeds, and
\* FAILURE whenever bytes is less than the sum of the padded requirements of
\* the database, the ASDSs and the planner.
C19_InitAgainstRequirement ==
    IsInit =>
        /\ (call.bytes >= call.memory_requirement /\ EveryInitSucceeds) =>
              (call.result.status = "SUCCESS")
        /\ (call.bytes < PaddedSum) => (call.result.status = "FAILURE")


\* a block of exactly memory_requirement() bytes, every init succeeding, and a
\* planner that requires memory
C19_Witness ==
    /\ IsInit
    /\ EveryInitSucceeds
    /\ call.bytes = call.memory_requirement
    /\ Len(call.asds) = MaxAsds
    /\ call.planner.memory_requirement > 0
    /\ call.result.status = "FAILURE"

(***************************************************************************)
(* Properties of ASDS::submit_data_product.                                *)
(***************************************************************************)
\* the metadata file has a numeric science_utility_estimate, an integer
\* priority_bin and an object-valued metadata
AcceptableJson(json) ==
    /\ "science_utility_estimate" \in DOMAIN json.members
    /\ json.members["science_utility_estimate"].kind \in {"integer", "float"}
    /\ "priority_bin" \in DOMAIN json.members
    /\ json.members["priority_bin"].kind = "integer"
    /\ "metadata" \in DOMAIN json.members
    /\ json.members["metadata"].kind = "object"

RECURSIVE SizeOver(_, _)
SizeOver(queue, k) ==
    IF k = 0 THEN 0
    ELSE SizeOver(queue, k - 1) + get_int_value(EntryGet(queue[k], "size"))

\* the sum over queue[1..k], in queue order, of the final SUE each entry carries
RECURSIVE FinalSueOver(_, _)
FinalSueOver(queue, k) ==
    IF k = 0 THEN F(0)
    ELSE FAdd(FinalSueOver(queue, k - 1),
              get_float_value(EntryGet(queue[k], "final_science_utility_estimate")))

\* C21: at the start of every iteration of _prioritize_bin cumulative_size is
\* the sum of size over the queue and cumulative_sue the sum of the final SUE
\* each queued ASDP was given at the step that selected it; no rule adjustment
\* is kept in either, and the adjustment added to a candidate's utility is the
\* one RuleSet::apply computes over that candidate queue at that step.
C21_CumulativeSums ==
    /\ (pc \in {"select", "collect"}) =>
          /\ cumulative_size = SizeOver(prioritized, Len(prioritized))
          /\ cumulative_sue = FinalSueOver(prioritized, Len(prioritized))
    /\ (pc = "select" /\ step.taken /\ step.bin = bin /\ step.best_idx >= 0) =>
          /\ Len(prioritized) = Len(step.queue) + 1
          /\ get_float_value(EntryGet(prioritized[Len(prioritized)],
                                      "final_science_utility_estimate")) = Chosen.final_sue
    /\ (pc # "idle" /\ step.taken) =>
          /\ step.cumulative_size = SizeOver(step.queue, Len(step.queue))
          /\ step.cumulative_sue = FinalSueOver(step.queue, Len(step.queue))
          /\ \A k \in 1..Len(step.evals) :
                LET e == step.evals[k]
                    asdp == e.candidate[Len(e.candidate)]
                IN /\ e.adjustment =
                         RuleSet_apply(parse_rule_config(rule_configuration_id),
                                       step.bin, e.candidate).second
                   /\ e.satisfied =>
                         e.relative_utility =
                            FDiv(FAdd(FAdd(step.cumulative_sue, e.final_sue), e.adjustment),
                                 step.cumulative_size + get_int_value(EntryGet(asdp, "size")))

\* an iteration starts with two ASDPs queued, the second of them chosen with a
\* rule adjustment of 1.0 on top of its utility
C21_Witness ==
    /\ pc = "select"
    /\ Len(prioritized) = 2
    /\ Len(asdps) > 0
    /\ step.taken
    /\ step.bin = bin
    /\ step.best_idx >= 0
    /\ Chosen.adjustment = Whole(1)
    /\ FGt(cumulative_sue, F(0))

\* the ASDP a candidate queue was built for: its last element
Evaluated(e) == e.candidate[Len(e.candidate)]

\* the discount factor of an ASDP against a queue, computed with an empty cache
FreshDiscount(b, queue, asdp) ==
    get_discount_factor(parse_similarity_config(similarity_configuration_id),
                        EmptyCache, b, queue, asdp).discount_factor

\* a queued ASDP of the same (instrument_name, type) with the same descriptor x
HasTwin(queue, asdp) ==
    \E k \in 1..Len(queue) :
        /\ inst_type(queue[k]) = inst_type(asdp)
        /\ "x" \in DOMAIN asdp
        /\ "x" \in DOMAIN queue[k]
        /\ asdp["x"] = queue[k]["x"]

\* the catalog of the example: rows A = 1 and B = 2, alike, in one bin
TwinCatalog ==
    /\ Len(db) = 2
    /\ db[1] = db[2]
    /\ db[1].downlink_state = "UNTRANSMITTED"
    /\ db[1].instrument_name = "SFI" /\ db[1].type = "cntx"
    /\ db[1].priority_bin = 1
    /\ db[1].science_utility_estimate = Whole(1)

FinalSues(queue) ==
    [k \in 1..Len(queue) |->
        get_float_value(EntryGet(queue[k], "final_science_utility_estimate"))]

\* C22: the final SUE of a candidate is its SUE times the discount factor
\* against the queue as it is before the candidate is added: the candidate is
\* not in that queue, the candidates of an empty queue keep their full SUE, and
\* with alpha = 1 and the Gaussian kernel a candidate with the descriptor of a
\* queued ASDP of its (instrument, type) gets 0; the example returns [A, B]
\* with final SUEs 1.0 and 0.0.
C22_DiscountAgainstQueue ==
    /\ (pc # "idle" /\ step.taken) =>
          \A k \in 1..Len(step.evals) :
             LET e == step.evals[k]
                 asdp == Evaluated(e)
                 sue == get_float_value(EntryGet(asdp, "science_utility_estimate"))
             IN /\ e.candidate = Append(step.queue, asdp)
                /\ \A q \in 1..Len(step.queue) :
                      EntryGet(step.queue[q], "id") # EntryGet(asdp, "id")
                /\ e.final_sue = FMul(FreshDiscount(step.bin, step.queue, asdp), sue)
                /\ step.queue = <<>> => e.final_sue = sue
                /\ (/\ similarity_configuration_id = "gauss"
                    /\ step.bin = 1
                    /\ inst_type(asdp) = <<"SFI", "cntx">>
                    /\ HasTwin(step.queue, asdp)) => e.final_sue = F(0)
    /\ (Returning /\ TwinCatalog /\ similarity_configuration_id = "gauss"
                  /\ rule_configuration_id = "") =>
          /\ Output = <<1, 2>>
          /\ FinalSues(prioritized) = <<Whole(1), F(0)>>

\* the call on the example's catalog returns
C22_Witness ==
    /\ Returning
    /\ TwinCatalog
    /\ similarity_configuration_id = "gauss"
    /\ rule_configuration_id = ""
    /\ Output = <<1, 2>>
    /\ FinalSues(prioritized) = <<Whole(1), F(0)>>
    /\ step.taken
    /\ HasTwin(step.queue, Evaluated(Chosen))

\* some constraint of the bin of the last step is violated by the queue
ViolatesSome(queue) ==
    LET constraints == get_constraints(parse_rule_config(rule_configuration_id), step.bin)
    IN \E k \in 1..Len(constraints) : ~Constraint_apply(constraints[k], queue)

\* the catalog of the example, scaled to the bound SUM x.size LESS THAN 50:
\* two rows of one bin, of sizes 40 and 10
CapCatalog ==
    /\ Len(db) = 2
    /\ {db[1].dp_size, db[2].dp_size} = {40, 10}
    /\ \A r \in 1..2 : db[r].priority_bin = 1 /\ db[r].downlink_state = "UNTRANSMITTED"

\* C23: _prioritize_bin makes at most |C| iterations for a bin of |C|
\* candidates: every iteration that stays in the loop queues one candidate, and
\* the loop is left early only by an iteration in which every remaining
\* candidate, appended to the queue, violates a constraint of the bin.  With
\* the constraint sum of size < 50 and candidates of sizes 40 and 10 the result
\* is the single row of size 40.
C23_BoundedSelection ==
    /\ [](/\ (pc \in {"select", "collect"}) =>
                /\ maxiter = Len(binned_asdps[bin])
                /\ i = Len(prioritized)
                /\ Len(prioritized) + Len(asdps) = maxiter
                /\ i <= maxiter
          /\ (pc = "collect") =>
                /\ i < maxiter
                /\ step.taken /\ step.bin = bin /\ step.queue = prioritized
                /\ Len(step.evals) = Len(asdps)
                /\ \A k \in 1..Len(step.evals) :
                      /\ EntryGet(asdps[k], "id") = EntryGet(Evaluated(step.evals[k]), "id")
                      /\ step.evals[k].candidate =
                            Append(prioritized, Evaluated(step.evals[k]))
                      /\ ViolatesSome(step.evals[k].candidate)
          /\ (Returning /\ CapCatalog /\ rule_configuration_id = "size_cap") =>
                /\ Len(Output) = 1
                /\ db[Output[1]].dp_size = 40)
    /\ [][/\ (pc = "select" /\ pc' = "select") => (i' = i + 1 /\ maxiter' = maxiter)
          /\ (pc = "select" /\ pc' = "collect") => (i' = i /\ prioritized' = prioritized)
          /\ (pc = "select" /\ pc' = "bins" /\ Len(asdps) > 0) => FALSE]_vars

\* the loop was left with the row of size 10 not queued
C23_Witness ==
    /\ pc = "collect"
    /\ CapCatalog
    /\ rule_configuration_id = "size_cap"
    /\ Len(prioritized) = 1
    /\ get_int_value(EntryGet(prioritized[1], "size")) = 40
    /\ Len(asdps) = 1
    /\ get_int_value(EntryGet(asdps[1], "size")) = 10

(***************************************************************************)
(* Properties of the rule parser.                                          *)
(***************************************************************************)
\* j is the JSON of a node of the given type
IsNode(j, type) ==
    /\ is_object(j)
    /\ is_string(Member(j, "__type__"))
    /\ Member(j, "__type__").string = type
    /\ is_object(Member(j, "__contents__"))

Has(j, key) == key \in DOMAIN Member(j, "__contents__").members
Arg(j, key) == Member(Member(j, "__contents__"), key)

\* the grammar of value expressions: every argument present and of its type
RECURSIVE WellFormedValue(_)
WellFormedValue(j) ==
    \/ IsNode(j, "ConstExpression") /\ Has(j, "value") /\ is_number(Arg(j, "value"))
    \/ IsNode(j, "StringConstant") /\ Has(j, "value") /\ is_string(Arg(j, "value"))
    \/ IsNode(j, "MinusExpression") /\ Has(j, "expression")
           /\ WellFormedValue(Arg(j, "expression"))
    \/ IsNode(j, "BinaryExpression") /\ Has(j, "operator") /\ is_string(Arg(j, "operator"))
           /\ Has(j, "left_expression") /\ WellFormedValue(Arg(j, "left_expression"))
           /\ Has(j, "right_expression") /\ WellFormedValue(Arg(j, "right_expression"))
    \/ IsNode(j, "Field") /\ Has(j, "variable_name") /\ is_string(Arg(j, "variable_name"))
           /\ Has(j, "field_name") /\ is_string(Arg(j, "field_name"))

\* the grammar of boolean expressions
RECURSIVE WellFormedBool(_)
WellFormedBool(j) ==
    \/ IsNode(j, "LogicalConstant") /\ Has(j, "value") /\ is_boolean(Arg(j, "value"))
    \/ IsNode(j, "LogicalNot") /\ Has(j, "expression") /\ WellFormedBool(Arg(j, "expression"))
    \/ IsNode(j, "BinaryLogicalExpression")
           /\ Has(j, "operator") /\ is_string(Arg(j, "operator"))
           /\ Has(j, "left_expression") /\ WellFormedBool(Arg(j, "left_expression"))
           /\ Has(j, "right_expression") /\ WellFormedBool(Arg(j, "right_expression"))
    \/ IsNode(j, "ComparatorExpression")
           /\ Has(j, "comparator") /\ is_string(Arg(j, "comparator"))
           /\ Has(j, "left_expression") /\ WellFormedValue(Arg(j, "left_expression"))
           /\ Has(j, "right_expression") /\ WellFormedValue(Arg(j, "right_expression"))
    \/ IsNode(j, "ExistentialExpression")
           /\ Has(j, "variable") /\ is_string(Arg(j, "variable"))
           /\ Has(j, "expression") /\ WellFormedBool(Arg(j, "expression"))

\* a rule without parse failure; max_applications may be missing (it defaults)
WellFormedRule(j) ==
    /\ IsNode(j, "Rule")
    /\ Has(j, "variables") /\ is_array(Arg(j, "variables"))
    /\ Has(j, "application") /\ WellFormedBool(Arg(j, "application"))
    /\ Has(j, "adjustment") /\ WellFormedValue(Arg(j, "adjustment"))

\* a constraint without parse failure; sum_field is present, as an expression
\* or as null
WellFormedConstraint(j) ==
    /\ IsNode(j, "Constraint")
    /\ Has(j, "variables") /\ is_array(Arg(j, "variables"))
    /\ Has(j, "application") /\ WellFormedBool(Arg(j, "application"))
    /\ Has(j, "sum_field")
    /\ is_null(Arg(j, "sum_field")) \/ WellFormedValue(Arg(j, "sum_field"))
    /\ Has(j, "constraint_value") /\ is_number(Arg(j, "constraint_value"))

\* the rules and constraints of the bin that was parsed, as declared
DeclaredRules == Member(call.j_bin, "rules").items
DeclaredConstraints == Member(call.j_bin, "constraints").items

\* C24: _parse_bin keeps exactly the well-formed rules and the well-formed
\* constraints of the bin, in declared order, leaving out each one that has a
\* missing key, an argument of the wrong JSON type or an unknown __type__; no
\* rule or constraint is kept with a null application or adjustment.
C24_MalformedLeftOut ==
    (call.op = "_parse_bin") =>
        LET rules == SelectSeq(DeclaredRules, WellFormedRule)
            constraints == SelectSeq(DeclaredConstraints, WellFormedConstraint)
        IN /\ call.result.rules = [k \in 1..Len(rules) |-> _parse_rule(rules[k]).value]
           /\ call.result.constraints =
                 [k \in 1..Len(constraints) |-> _parse_constraint(constraints[k]).value]
           /\ \A k \in 1..Len(call.result.rules) :
                 /\ call.result.rules[k].application_expression # Null
                 /\ call.result.rules[k].adjustment_expression # Null
           /\ \A k \in 1..Len(call.result.constraints) :
                 call.result.constraints[k].application_expression # Null

\* a bin whose first rule has no adjustment key and whose second rule is
\* complete has been parsed: both rules are kept, the first with a null
\* adjustment
C24_Witness ==
    /\ call.op = "_parse_bin"
    /\ Len(DeclaredRules) = 2
    /\ ~Has(DeclaredRules[1], "adjustment")
    /\ WellFormedRule(DeclaredRules[2])
    /\ Len(call.result.rules) = 2
    /\ call.result.rules[1].adjustment_expression = Null

(***************************************************************************)
(* Properties of Application::init and Application::deinit on the modules. *)
(***************************************************************************)
Reverse(s) == [k \in 1..Len(s) |-> s[Len(s) + 1 - k]]

\* the modules called, in call order
ModulesOf(calls) == [k \in 1..Len(calls) |-> calls[k].module]

\* a deinit in which every module answers SUCCESS, after an init that did
CompleteDeinit ==
    /\ call.op = "Application::deinit"
    /\ call.status = "SUCCESS"
    /\ call.init.status = "SUCCESS"

\* C25: init runs the database, ASDS 0 .. n-1, the planner, and deinit runs the
\* modules in the reverse of that order: the planner, ASDS n-1 .. 0, the
\* database, for every number n of registered ASDSs.
C25_ReverseOfInit ==
    CompleteDeinit =>
        /\ ModulesOf(call.init.calls) =
              <<DatabaseModule>> \o [k \in 1..call.n_asds |-> AsdsModule(k - 1)]
                  \o <<PlannerModule>>
        /\ call.calls = Reverse(ModulesOf(call.init.calls))
        /\ call.calls =
              <<PlannerModule>> \o [k \in 1..call.n_asds |-> AsdsModule(call.n_asds - k)]
                  \o <<DatabaseModule>>

\* an application with two ASDSs has been initialized and de-initialized
C25_Witness ==
    /\ CompleteDeinit
    /\ call.n_asds = 2
    /\ Len(call.calls) = 4
    /\ call.calls[2] = AsdsModule(0)
    /\ call.calls[3] = AsdsModule(1)

\* C29: Application::init calls no module's init on a block that ends beyond
\* the bytes the caller supplied (offset + padded requirement <= bytes when
\* the init is called), and when it returns FAILURE no module is left
\* initialized.
C29_InitWithinBlock ==
    (call.op = "Application::init") =>
        /\ \A k \in 1..Len(call.calls) :
              call.calls[k].offset + call.calls[k].bytes <= call.bytes
        /\ (call.status = "FAILURE") =>
              \A k \in 1..Len(call.calls) : call.calls[k].status # "SUCCESS"

\* init has returned FAILURE for a block of 0 bytes after it initialized the
\* database and an ASDS on 8 bytes at offset 0
C29_Witness ==
    /\ call.op = "Application::init"
    /\ call.bytes = 0
    /\ call.status = "FAILURE"
    /\ Len(call.calls) = 2
    /\ call.calls[1] = [module |-> DatabaseModule, bytes |-> 0, offset |-> 0,
                        status |-> "SUCCESS"]
    /\ call.calls[2] = [module |-> AsdsModule(0), bytes |-> 8, offset |-> 0,
                        status |-> "SUCCESS"]

(***************************************************************************)
(* Properties of the Timer.                                                *)
(***************************************************************************)
\* C26: is_expired answers false before the first start; after a start it
\* answers true exactly when the clock reading minus the reading of the most
\* recent start is at least the duration, so a timer of duration 0 is expired
\* as soon as it is started; for every positive reading of the clock.
C26_TimerExpiry ==
    (timer.constructed /\ timer.asked) =>
        /\ ~timer.started => ~timer.expired
        /\ timer.started =>
              (timer.expired <=> (timer.now - timer.started_at >= timer.duration))
        /\ (timer.started /\ timer.duration = 0 /\ timer.now >= timer.started_at) =>
              timer.expired

\* a restarted timer is asked when exactly its duration has passed since the
\* last start
C26_Witness ==
    /\ timer.constructed
    /\ timer.asked
    /\ timer.restarted
    /\ timer.duration = 2
    /\ timer.started_at = 2
    /\ timer.now = 4
    /\ timer.expired

(***************************************************************************)
(* Properties of the output of prioritize.                                 *)
(***************************************************************************)
\* the rows of the catalog in the given downlink state
RowsIn(state) == {r \in 1..Len(db) : db[r].downlink_state = state}

\* C27: the list a prioritize call builds holds only ids of rows that are
\* UNTRANSMITTED in the catalog the call reads: TRANSMITTED rows are left out
\* like DOWNLINKED rows, whatever the catalog holds.
C27_OnlyUntransmitted ==
    pc # "idle" =>
        /\ \A k \in 1..Len(Output) : Output[k] \in RowsIn("UNTRANSMITTED")
        /\ \A b \in DOMAIN binned_asdps : \A k \in 1..Len(binned_asdps[b]) :
              get_int_value(EntryGet(binned_asdps[b][k], "id")) \in RowsIn("UNTRANSMITTED")

\* a call returns the one UNTRANSMITTED row of a catalog that also has a
\* TRANSMITTED and a DOWNLINKED row
C27_Witness ==
    /\ Returning
    /\ Len(db) = 3
    /\ Cardinality(RowsIn("TRANSMITTED")) = 1
    /\ Cardinality(RowsIn("DOWNLINKED")) = 1
    /\ Len(Output) = 1
    /\ Output[1] \in RowsIn("UNTRANSMITTED")

\* the catalog and the configurations of the running call are those of the
\* call that returned last
SameCall ==
    /\ db = returned.db
    /\ rule_configuration_id = returned.rule_configuration_id
    /\ similarity_configuration_id = returned.similarity_configuration_id

Occurrences(list, id) == Cardinality({k \in 1..Len(list) : list[k] = id})

\* C28: prioritize never removes or reorders the ids its output list held
\* when it was called: the list is at any time what it held followed by the
\* ids selected so far, and a call that follows a call on the same catalog
\* into the same list selects the same ids again, each of them then being in
\* the list at least twice.
C28_AppendsToList ==
    /\ Len(prioritized_list) >= Len(returned.list)
    /\ SubSeq(prioritized_list, 1, Len(returned.list)) = returned.list
    /\ Returning /\ SameCall =>
          /\ Added = returned.added
          /\ \A k \in 1..Len(Added) : Occurrences(prioritized_list, Added[k]) >= 2

\* the second of two calls on one catalog returns: both ids it selected were
\* in the list already
C28_Witness ==
    /\ Returning
    /\ SameCall
    /\ Len(returned.list) = 2
    /\ Len(Added) = 2
    /\ prioritized_list = returned.list \o returned.list

IdsOf(list) == {get_int_value(EntryGet(list[k], "id")) : k \in 1..Len(list)}

NoIdTwice(ids) == \A j, k \in 1..Len(ids) : ids[j] = ids[k] => j = k

\* C30: while _prioritize_bin runs, the ASDPs it has queued and the candidates
\* left are disjoint and together are the ASDPs the bin came with; the list a
\* call builds from an empty one holds no id twice and only ids that
\* list_data_product_ids returns.
C30_QueuePartitionsBin ==
    /\ pc \in {"select", "collect"} =>
          /\ IdsOf(prioritized) \cap IdsOf(asdps) = {}
          /\ IdsOf(prioritized) \cup IdsOf(asdps) = IdsOf(binned_asdps[bin])
          /\ Len(prioritized) + Len(asdps) = Len(binned_asdps[bin])
    /\ pc # "idle" =>
          /\ NoIdTwice(Output)
          /\ \A k \in 1..Len(Output) :
                \E j \in 1..Len(list_data_product_ids) : list_data_product_ids[j] = Output[k]

\* a bin of two is half done (one ASDP queued, one left) and the id of an
\* earlier bin is in the list already
C30_Witness ==
    /\ pc = "select"
    /\ Len(binned_asdps[bin]) = 2
    /\ Len(prioritized) = 1
    /\ Len(asdps) = 1
    /\ Len(Output) = 1

=============================================================================
